---- MODULE Spec2Model ----
(***************************************************************************)
(* Model of del.c (Desktop Entry Launcher).                                *)
(*                                                                         *)
(*   Spec         launch mode: menu() together with the selector process  *)
(*                it forks and the command processes it launches.         *)
(*   SpecRefresh  refresh mode: refresh_command_list() and the registry.  *)
(***************************************************************************)
EXTENDS Integers, Sequences, FiniteSets, TLC

VARIABLES
    \* ---- menu(): the orchestrator (parent process) ----
    pc,                 \* position of the parent inside menu()
    failure,            \* int failure
    menu_kill_signal,   \* int menu_kill_signal
    menu_pid,           \* pid_t menu_pid (0 before fork, -1 when fork failed)
    command,            \* char *command: the line getline() returned last
    eof_flag,           \* end-of-file indicator of menu_output
    wait_status,        \* what waitpid() stored / returned last
    retval,             \* value returned by menu(), meaningful when pc = "done"
    errlog,             \* diagnostics written to stderr by the parent
    \* ---- the selector (menu) process ----
    menu_st,            \* position of the selector process
    menu_status,        \* how the selector terminated
    setup_failed,       \* the selector's child-side setup step that failed
    written,            \* complete lines the selector wrote to the pipe so far
    tail,               \* unterminated text written after the last newline
    hup_pending,        \* a SIGHUP sent by the parent is pending for the selector
    \* ---- bookkeeping of what the parent did ----
    nread,              \* number of complete lines getline() has returned
    malformed,          \* text getline() returned without a trailing newline
    launched,           \* fork() attempts for selected commands, in order
    kills,              \* kill() calls made by the parent: <<pid, signal>>
    reaped,             \* pids whose status the parent collected with waitpid()
    spurious,           \* waitpid() returns that reported no termination
    \* ---- refresh_command_list() and the command list ----
    rpc,                \* position inside refresh_command_list()
    commands,           \* char **commands[0 .. command_count - 1]
    malloc_failed,      \* int malloc_failed
    rret,               \* value returned by refresh_command_list()
    stdin_tty,          \* isatty(STDIN_FILENO), or stdin is closed (EBADF)
    stdin_lines,        \* lines of stdin not read yet
    dest_exists,        \* the destination file exists
    dest_lines,         \* lines of the destination file
    fpos,               \* lines of the destination file read while loading
    descs,              \* descriptor files not visited yet: their candidates
    execs,              \* names command_path() resolves
    tempfile,           \* lines of the temporary file, NoFile when absent
    inserted,           \* every add_command_to_list() made: name and origin
    parsed,             \* candidates of the descriptor files visited so far
    dest_orig,          \* the destination file as it was before the refresh
    rlog,               \* diagnostics refresh mode wrote to stderr
    rcalls,             \* calls made on the temporary file that took effect
    stdin_read,         \* lines of stdin read so far
    reported,           \* names printed as dropped ("- name") while loading
    \* ---- parse_desktop_entry(): the getline() loop ----
    ppc,                \* position inside parse_desktop_entry()
    entry_lines,        \* lines of the desktop entry file
    entry_pos,          \* number of lines getline() has returned
    inside_desktop_entry, \* int inside_desktop_entry
    entry_command,      \* char command[4096]
    entry_basename,     \* const char *command_basename
    \* ---- command_path() ----
    cp_pc,              \* position inside command_path()
    cp_command,         \* const char *command
    cp_env,             \* value of the PATH variable, NoEnv when unset
    cp_files,           \* paths of the executable regular files
    src,                \* const char *src: index into the PATH value
    src_mark,           \* const char *src_mark
    path_buf,           \* path[0 .. dest - path - 1]
    cp_result,          \* the value command_path() returned
    cp_errno,           \* errno as command_path() left it
    cp_tested,          \* the paths given to can_execute(), in order
    cp_getenv,          \* getenv("PATH") was called
    cp_overflow         \* a byte was stored past the end of path[]

menuVars == <<pc, failure, menu_kill_signal, menu_pid, command, eof_flag,
              wait_status, retval, errlog, menu_st, menu_status, setup_failed,
              written, tail, hup_pending, nread, malformed, launched, kills, reaped,
              spurious>>

refreshVars == <<rpc, commands, malloc_failed, rret, stdin_tty, stdin_lines,
                 dest_exists, dest_lines, fpos, descs, execs, tempfile,
                 inserted, parsed, dest_orig, rlog, rcalls, stdin_read,
                 reported>>

parseVars == <<ppc, entry_lines, entry_pos, inside_desktop_entry,
               entry_command, entry_basename>>

pathVars == <<cp_pc, cp_command, cp_env, cp_files, src, src_mark, path_buf,
              cp_result, cp_errno, cp_tested, cp_getenv, cp_overflow>>

utilVars == <<parseVars, pathVars>>

vars == <<menuVars, refreshVars, utilVars>>

----------------------------------------------------------------------------
(* Bounds of the model. *)

\* Number of complete lines the selector writes.
MaxLines == 2

\* Number of waitpid() returns that report neither exit nor signal.
MaxSpurious == 1

\* Number of lines on stdin in refresh mode.
MaxStdin == 1

\* Number of lines of the destination file before the refresh.
MaxFileLines == 1

\* Number of descriptor files the directory walk visits.
MaxFiles == 1

(* Program constants. *)
SIGHUP == 1

\* Names the selector can print.
Commands == {"xterm", "gimp"}

\* Exit statuses of the selector program.
ExitStatuses == {0, 1, 3}

\* Signals the environment can kill the selector with.
EnvSignals == {SIGHUP, 15}

NoStatus == <<"none", 0>>
NoText == ""

----------------------------------------------------------------------------
(* Helpers over the state. *)

MenuSetupSteps == {"close_r", "dup2", "close_in", "open", "exec"}

\* The selector process exists and has not terminated.
MenuAlive == menu_st \in MenuSetupSteps \cup {"running"}

\* The parent holds a descriptor for the write end of the pipe: from pipe()
\* until close(pipefds[1]) has succeeded.
ParentHoldsWriteEnd ==
    \/ pc \in {"fork_menu", "close_w"}
    \/ "close_w" \in errlog

\* Every descriptor for the write end of the pipe is closed: the parent closed
\* its copy and the selector's copies went away when it died. The commands
\* are forked after the parent closed its copy and inherit none.
WriteEndClosed == menu_st = "dead" /\ ~ParentHoldsWriteEnd

\* Complete lines sitting unread in the pipe.
Unread == SubSeq(written, nread + 1, Len(written))

\* Pids of launched commands that terminated and were not collected.
DeadCommands ==
    {launched[k].pid : k \in {j \in 1..Len(launched) :
                                 launched[j].st \in {"exited", "signaled"}}}

\* Pids of the parent's children that have terminated.
Terminated == (IF menu_st = "dead" THEN {menu_pid} ELSE {}) \cup DeadCommands

\* Wait status of process p as waitpid() would report it.
StatusOf(p) ==
    IF p = menu_pid THEN menu_status
    ELSE LET k == CHOOSE j \in 1..Len(launched) : launched[j].pid = p
         IN  <<launched[k].st, launched[k].val>>

----------------------------------------------------------------------------
(* Decisions taken by menu(), one operator per condition of the code. *)

\* Variant: the signal is sent whatever the value of failure.
ShouldKill_Always(f) == TRUE

\* if (failure == 1) kill(menu_pid, (menu_kill_signal = SIGHUP));
ShouldKill(f) == f = 1

\* if (!failure && (failure = !feof(menu_output)))
ReadEndFailure(f, eof) == IF f = 0 THEN (IF eof THEN 0 ELSE 1) ELSE f

\* waitpid() == -1: if (!failure) failure = 2;
WaitErrorFailure(f) == IF f = 0 THEN 2 ELSE f

\* Variant: the exit status is stored without the !failure test.
ExitedFailure_NoPriority(f, s) == s

\* WIFEXITED: if (!failure && (failure = WEXITSTATUS(wait_status)))
ExitedFailure(f, s) == IF f = 0 THEN s ELSE f

\* WIFSIGNALED: if ((signum = WTERMSIG(wait_status)) != menu_kill_signal)
\*                  failure = failure ? failure : 128 + signum;
SignaledFailure(f, signum, ks) ==
    IF signum # ks THEN (IF f # 0 THEN f ELSE 128 + signum) ELSE f

\* Whether the signal death is reported on stderr.
SignalReported(signum, ks) == signum # ks

\* Variant: waitpid(-1, ...) reports on any child.
WaitTargets_Any == {menu_pid} \cup {launched[k].pid : k \in 1..Len(launched)}

\* The pids waitpid(menu_pid, &wait_status, 0) can report on.
WaitTargets == {menu_pid}

----------------------------------------------------------------------------
(* Strings are sequences of character codes. *)

\* Command names used as inputs: "a", "A", "b", "Ab".
Names == {<<97>>, <<65>>, <<98>>, <<65, 98>>}

\* command[0] == '\0': no candidate command.
NoName == <<>>

\* No file at a path (no line of a text file holds a NUL character).
NoFile == << <<0>> >>

\* if (*k >= 'A' && *k <= 'Z') *k += 32;   and tolower() in the C locale.
ToLower(c) == IF c >= 65 /\ c <= 90 THEN c + 32 ELSE c

LowerStr(str) == [i \in 1..Len(str) |-> ToLower(str[i])]

\* Character i of a C string: the terminating NUL past its end.
CharAt(str, i) == IF i <= Len(str) THEN str[i] ELSE 0

\* strcmp(a, b): negative, zero or positive.
strcmp(a, b) ==
    LET n == (IF Len(a) < Len(b) THEN Len(a) ELSE Len(b)) + 1
        diff == {i \in 1..n : CharAt(a, i) # CharAt(b, i)}
    IN  IF diff = {} THEN 0
        ELSE LET i == CHOOSE x \in diff : \A y \in diff : x <= y
             IN  CharAt(a, i) - CharAt(b, i)

\* strcasecmp(a, b): strcmp of the lowercased strings.
strcasecmp(a, b) == strcmp(LowerStr(a), LowerStr(b))

\* return strcasecmp(*(char * const *) a, *(char * const *) b);
stringcomparator(a, b) == strcasecmp(a, b)

\* Variant: the membership test finds nothing.
command_list_contains_Never(needle) == FALSE

\* for (i = 0; i < command_count; i++) if (!strcasecmp(commands[i], needle))
command_list_contains(needle) ==
    \E i \in 1..Len(commands) : strcasecmp(commands[i], needle) = 0

\* command_path(name) != NULL: the name resolves to an executable file.
command_path(name) == name \in execs

\* The outcomes qsort(commands, command_count, ..., stringcomparator) can
\* have: every ordering of the entries that the comparator accepts as sorted
\* (the order of entries that compare equal is unspecified).
RECURSIVE SortedOrders(_)
SortedOrders(S) ==
    IF S = {} THEN {<<>>}
    ELSE UNION {
           {<<commands[i]>> \o t : t \in SortedOrders(S \ {i})} :
           i \in {m \in S :
                    \A j \in S : stringcomparator(commands[m], commands[j]) <= 0}}

\* Whether entry i of the sorted list is written:
\* (!i || strcmp(commands[i - 1], commands[i]))
IsWritten(list, i) == i = 1 \/ strcmp(list[i - 1], list[i]) # 0

\* The lines the write loop prints for a sorted list.
RECURSIVE WriteOut(_, _)
WriteOut(list, i) ==
    IF i > Len(list) THEN <<>>
    ELSE (IF IsWritten(list, i) THEN <<list[i]>> ELSE <<>>)
         \o WriteOut(list, i + 1)

\* Sequences over S of length at most n.
SeqsUpTo(S, n) == UNION {[1..k -> S] : k \in 0..n}

\* The sets of names that resolve at the time of a refresh: everything, the
\* lowercase names only, the names as spelled in the inputs except "a".
ExecChoices ==
    {Names \cup {LowerStr(x) : x \in Names},
     {LowerStr(x) : x \in Names},
     Names \ {<<97>>}}

----------------------------------------------------------------------------
(* Refresh mode: refresh_command_list(). *)

RefreshIdle ==
    /\ rpc = "idle"
    /\ commands = <<>>
    /\ malloc_failed = FALSE
    /\ rret = 0
    /\ stdin_tty = TRUE
    /\ stdin_lines = <<>>
    /\ dest_exists = FALSE
    /\ dest_lines = <<>>
    /\ fpos = 0
    /\ descs = <<>>
    /\ execs = {}
    /\ tempfile = NoFile
    /\ inserted = <<>>
    /\ parsed = <<>>
    /\ dest_orig = [exists |-> FALSE, lines |-> <<>>]
    /\ rlog = {}
    /\ rcalls = {}
    /\ stdin_read = <<>>
    /\ reported = <<>>

RefreshStart ==
    /\ rpc = "load_stdin"
    /\ commands = <<>>
    /\ malloc_failed = FALSE
    /\ rret = 0
    /\ stdin_tty \in BOOLEAN
    /\ stdin_lines \in (IF stdin_tty THEN {<<>>} ELSE SeqsUpTo(Names, MaxStdin))
    /\ dest_exists \in BOOLEAN
    /\ dest_lines \in (IF dest_exists THEN SeqsUpTo(Names, MaxFileLines)
                                       ELSE {<<>>})
    /\ fpos = 0
    /\ descs \in SeqsUpTo(Names \cup {NoName}, MaxFiles)
    /\ execs \in ExecChoices
    /\ tempfile = NoFile
    /\ inserted = <<>>
    /\ parsed = <<>>
    /\ dest_orig = [exists |-> dest_exists, lines |-> dest_lines]
    /\ rlog = {}
    /\ rcalls = {}
    /\ stdin_read = <<>>
    /\ reported = <<>>

\* add_command_to_list(name) succeeded: commands[command_count++] = strdup().
Added(name, origin) ==
    /\ commands' = Append(commands, name)
    /\ inserted' = Append(inserted, [name |-> name, origin |-> origin])
    /\ UNCHANGED malloc_failed

\* add_command_to_list(name) failed in realloc() or strdup().
AddFailed ==
    /\ malloc_failed' = TRUE
    /\ UNCHANGED <<commands, inserted>>

\* The diagnostic refresh_command_list() prints when a load fails.
LoadDiagnostic(origin) == IF origin = "stdin" THEN "stdin" ELSE "load"

\* Variant: a name is added whether it resolves or not.
LoadEntry_NoResolution(entry, origin, next) ==
    /\ Added(entry, origin) /\ rpc' = next
    /\ UNCHANGED <<rret, rlog, reported>>

\* One iteration of the getline() loop of load_commands_from_file() on an
\* entry: it is added when it resolves and reported ("- entry") otherwise; a
\* failed addition ends the load and with it the refresh.
LoadEntry(entry, origin, next) ==
    IF command_path(entry)
    THEN \/ /\ Added(entry, origin) /\ rpc' = next
            /\ UNCHANGED <<rret, rlog, reported>>
         \/ /\ AddFailed /\ rpc' = "done" /\ rret' = 1
            /\ rlog' = rlog \cup {"alloc", LoadDiagnostic(origin)}
            /\ UNCHANGED reported
    ELSE /\ rpc' = next
         /\ reported' = Append(reported, [name |-> entry, origin |-> origin])
         /\ UNCHANGED <<commands, inserted, malloc_failed, rret, rlog>>

\* if (!isatty(STDIN_FILENO) && errno != EBADF && ...): stdin is not loaded.
RefreshSkipStdin ==
    /\ rpc = "load_stdin"
    /\ stdin_tty
    /\ rpc' = "load_file"
    /\ UNCHANGED <<commands, malloc_failed, rret, stdin_tty, stdin_lines,
                   dest_exists, dest_lines, fpos, descs, execs, tempfile,
                   inserted, parsed>>
    /\ UNCHANGED <<dest_orig, rlog, rcalls, stdin_read, reported>>
    /\ UNCHANGED <<menuVars, utilVars>>

\* load_commands_from_file(NULL, stdin): one line.
RefreshStdinLine ==
    /\ rpc = "load_stdin"
    /\ ~stdin_tty
    /\ stdin_lines # <<>>
    /\ LoadEntry(Head(stdin_lines), "stdin", "load_stdin")
    /\ stdin_lines' = Tail(stdin_lines)
    /\ stdin_read' = Append(stdin_read, Head(stdin_lines))
    /\ UNCHANGED <<stdin_tty, dest_exists, dest_lines, fpos, descs, execs,
                   tempfile, parsed>>
    /\ UNCHANGED <<dest_orig, rcalls>>
    /\ UNCHANGED <<menuVars, utilVars>>

\* getline() on stdin returns -1: at end-of-file the load succeeded, with
\* feof() false it failed and refresh returns 1.
RefreshStdinEnd ==
    /\ rpc = "load_stdin"
    /\ ~stdin_tty
    /\ \/ stdin_lines = <<>> /\ rpc' = "load_file" /\ UNCHANGED <<rret, rlog>>
       \/ rpc' = "done" /\ rret' = 1 /\ rlog' = rlog \cup {"stdin"}
    /\ UNCHANGED <<commands, malloc_failed, stdin_tty, stdin_lines,
                   dest_exists, dest_lines, fpos, descs, execs, tempfile,
                   inserted, parsed>>
    /\ UNCHANGED <<dest_orig, rcalls, stdin_read, reported>>
    /\ UNCHANGED <<menuVars, utilVars>>

\* Variant: every failure to open the destination is taken for a missing
\* file.
RefreshOpenFile_AnyErrorIsMissing ==
    /\ rpc = "load_file"
    /\ IF dest_exists
       THEN \/ rpc' = "read_file" /\ UNCHANGED <<rret, rlog>>
            \/ rpc' = "scan" /\ UNCHANGED <<rret, rlog>>
       ELSE rpc' = "scan" /\ UNCHANGED <<rret, rlog>>
    /\ UNCHANGED <<commands, malloc_failed, stdin_tty, stdin_lines,
                   dest_exists, dest_lines, fpos, descs, execs, tempfile,
                   inserted, parsed>>
    /\ UNCHANGED <<dest_orig, rcalls, stdin_read, reported>>
    /\ UNCHANGED <<menuVars, utilVars>>

\* load_commands_from_file(path, NULL): fopen(path, "r"). A missing file
\* (ENOENT) is not an error for refresh; any other failure returns 1.
RefreshOpenFile ==
    /\ rpc = "load_file"
    /\ IF dest_exists
       THEN \/ rpc' = "read_file" /\ UNCHANGED <<rret, rlog>>
            \/ rpc' = "done" /\ rret' = 1 /\ rlog' = rlog \cup {"load"}
       ELSE rpc' = "scan" /\ UNCHANGED <<rret, rlog>>
    /\ UNCHANGED <<commands, malloc_failed, stdin_tty, stdin_lines,
                   dest_exists, dest_lines, fpos, descs, execs, tempfile,
                   inserted, parsed>>
    /\ UNCHANGED <<dest_orig, rcalls, stdin_read, reported>>
    /\ UNCHANGED <<menuVars, utilVars>>

\* load_commands_from_file(path, NULL): one line of the destination file.
RefreshFileLine ==
    /\ rpc = "read_file"
    /\ fpos < Len(dest_lines)
    /\ LoadEntry(dest_lines[fpos + 1], "file", "read_file")
    /\ fpos' = fpos + 1
    /\ UNCHANGED <<stdin_tty, stdin_lines, dest_exists, dest_lines, descs,
                   execs, tempfile, parsed>>
    /\ UNCHANGED <<dest_orig, rcalls, stdin_read>>
    /\ UNCHANGED <<menuVars, utilVars>>

\* getline() on the destination file returns -1: end-of-file or read error.
RefreshFileEnd ==
    /\ rpc = "read_file"
    /\ \/ fpos = Len(dest_lines) /\ rpc' = "scan" /\ UNCHANGED <<rret, rlog>>
       \/ rpc' = "done" /\ rret' = 1 /\ rlog' = rlog \cup {"load"}
    /\ UNCHANGED <<commands, malloc_failed, stdin_tty, stdin_lines,
                   dest_exists, dest_lines, fpos, descs, execs, tempfile,
                   inserted, parsed>>
    /\ UNCHANGED <<dest_orig, rcalls, stdin_read, reported>>
    /\ UNCHANGED <<menuVars, utilVars>>

\* The diagnostic printed when nftw() returns non-zero:
\* if (!malloc_failed) verror("del: unable to walk ...").
WalkDiagnostic(mf) == IF mf THEN {"alloc"} ELSE {"walk"}

\* Variant: the original spelling is added as well as the lowercased one.
RefreshParseEntry_AddsBoth ==
    /\ rpc = "scan"
    /\ descs # <<>>
    /\ descs' = Tail(descs)
    /\ parsed' = Append(parsed, Head(descs))
    /\ LET command_basename == Head(descs)
           lowercase_basename == LowerStr(command_basename)
       IN  IF command_basename = NoName
           THEN /\ rpc' = "scan"
                /\ UNCHANGED <<commands, inserted, malloc_failed, rret, rlog>>
           ELSE /\ commands' = commands \o <<lowercase_basename,
                                               command_basename>>
                /\ inserted' = inserted \o
                     <<[name |-> lowercase_basename, origin |-> "desktop"],
                       [name |-> command_basename, origin |-> "desktop"]>>
                /\ rpc' = "scan"
                /\ UNCHANGED <<malloc_failed, rret, rlog>>
    /\ UNCHANGED <<stdin_tty, stdin_lines, dest_exists, dest_lines, fpos,
                   execs, tempfile>>
    /\ UNCHANGED <<dest_orig, rcalls, stdin_read, reported>>
    /\ UNCHANGED <<menuVars, utilVars>>

\* nftw() calls parse_desktop_entry() on the next file. With a candidate
\* whose base name is not in the list: the lowercased name is added if it
\* resolves, else the name as spelled if it differs and resolves. A failed
\* strdup() or addition makes the callback return non-zero, which ends the
\* walk and the refresh.
RefreshParseEntry ==
    /\ rpc = "scan"
    /\ descs # <<>>
    /\ descs' = Tail(descs)
    /\ parsed' = Append(parsed, Head(descs))
    /\ LET command_basename == Head(descs)
           lowercase_basename == LowerStr(command_basename)
           case_changed == lowercase_basename # command_basename
       IN  IF command_basename = NoName
              \/ command_list_contains(command_basename)
           THEN /\ rpc' = "scan"
                /\ UNCHANGED <<commands, inserted, malloc_failed, rret, rlog>>
           ELSE \/ /\ rpc' = "done"
                   /\ rret' = 1
                   /\ rlog' = rlog \cup {"alloc"} \cup WalkDiagnostic(FALSE)
                   /\ UNCHANGED <<commands, inserted, malloc_failed>>
                \/ IF command_path(lowercase_basename)
                   THEN \/ /\ Added(lowercase_basename, "desktop")
                           /\ rpc' = "scan" /\ UNCHANGED <<rret, rlog>>
                        \/ /\ AddFailed /\ rpc' = "done" /\ rret' = 1
                           /\ rlog' = rlog \cup WalkDiagnostic(TRUE)
                   ELSE IF case_changed /\ command_path(command_basename)
                   THEN \/ /\ Added(command_basename, "desktop")
                           /\ rpc' = "scan" /\ UNCHANGED <<rret, rlog>>
                        \/ /\ AddFailed /\ rpc' = "done" /\ rret' = 1
                           /\ rlog' = rlog \cup WalkDiagnostic(TRUE)
                   ELSE /\ rpc' = "scan"
                        /\ UNCHANGED <<commands, inserted, malloc_failed,
                                       rret, rlog>>
    /\ UNCHANGED <<stdin_tty, stdin_lines, dest_exists, dest_lines, fpos,
                   execs, tempfile>>
    /\ UNCHANGED <<dest_orig, rcalls, stdin_read, reported>>
    /\ UNCHANGED <<menuVars, utilVars>>

\* Variant: the walk is followed by the persistence step whatever the
\* number of commands.
RefreshScanEnd_NoCountCheck ==
    /\ rpc = "scan"
    /\ \/ /\ descs = <<>>
          /\ rpc' = "mkstemp" /\ UNCHANGED <<rret, rlog>>
       \/ rpc' = "done" /\ rret' = 1 /\ rlog' = rlog \cup {"walk"}
    /\ UNCHANGED <<commands, malloc_failed, stdin_tty, stdin_lines,
                   dest_exists, dest_lines, fpos, descs, execs, tempfile,
                   inserted, parsed>>
    /\ UNCHANGED <<dest_orig, rcalls, stdin_read, reported>>
    /\ UNCHANGED <<menuVars, utilVars>>

\* nftw() returns: 0 after the last file, or non-zero because the walk
\* itself failed.  Then: if (!command_count) { fmterr(...); return 1; }
RefreshScanEnd ==
    /\ rpc = "scan"
    /\ \/ /\ descs = <<>>
          /\ IF Len(commands) = 0
             THEN rpc' = "done" /\ rret' = 1 /\ rlog' = rlog \cup {"nocommands"}
             ELSE rpc' = "mkstemp" /\ UNCHANGED <<rret, rlog>>
       \/ rpc' = "done" /\ rret' = 1 /\ rlog' = rlog \cup {"walk"}
    /\ UNCHANGED <<commands, malloc_failed, stdin_tty, stdin_lines,
                   dest_exists, dest_lines, fpos, descs, execs, tempfile,
                   inserted, parsed>>
    /\ UNCHANGED <<dest_orig, rcalls, stdin_read, reported>>
    /\ UNCHANGED <<menuVars, utilVars>>

\* if ((fdtemp = mkstemp(tempname)) == -1 || !(ftemp = fdopen(fdtemp, "w")))
\*     goto error;
\* error: if (fdtemp == -1) { verror("del: mkstemp: %s", tempname); } ...
RefreshMkstemp ==
    /\ rpc = "mkstemp"
    /\ \/ /\ tempfile' = <<>> /\ rpc' = "sort_write"
          /\ rcalls' = rcalls \cup {"mkstemp"}
          /\ UNCHANGED <<rret, rlog>>
       \/ /\ tempfile' = <<>> /\ rpc' = "error"
          /\ rcalls' = rcalls \cup {"mkstemp"}
          /\ UNCHANGED <<rret, rlog>>
       \/ /\ rpc' = "done" /\ rret' = 1
          /\ rlog' = rlog \cup {"mkstemp"}
          /\ UNCHANGED <<tempfile, rcalls>>
    /\ UNCHANGED <<commands, malloc_failed, stdin_tty, stdin_lines,
                   dest_exists, dest_lines, fpos, descs, execs, inserted,
                   parsed>>
    /\ UNCHANGED <<dest_orig, stdin_read, reported>>
    /\ UNCHANGED <<menuVars, utilVars>>

\* qsort(commands, ...); then the loop that prints every entry that differs
\* (strcmp) from the one before it. A failed fprintf() leaves the lines
\* printed so far and goes to error.
RefreshSortWrite ==
    /\ rpc = "sort_write"
    /\ \E sorted \in SortedOrders(1..Len(commands)) :
         /\ commands' = sorted
         /\ \/ tempfile' = WriteOut(sorted, 1) /\ rpc' = "flush"
            \/ \E n \in 0..(Len(WriteOut(sorted, 1)) - 1) :
                 /\ tempfile' = SubSeq(WriteOut(sorted, 1), 1, n)
                 /\ rpc' = "error"
    /\ UNCHANGED <<malloc_failed, rret, stdin_tty, stdin_lines, dest_exists,
                   dest_lines, fpos, descs, execs, inserted, parsed>>
    /\ UNCHANGED <<dest_orig, rlog, rcalls, stdin_read, reported>>
    /\ UNCHANGED <<menuVars, utilVars>>

\* Variant: the flushed lines are copied over the destination and the
\* temporary file is kept for the error path to remove.
RefreshFlushRename_CopyThenFail ==
    /\ rpc = "flush"
    /\ \/ /\ dest_lines' = tempfile
          /\ dest_exists' = TRUE
          /\ tempfile' = NoFile
          /\ rpc' = "done"
          /\ rret' = 0
          /\ rcalls' = rcalls \cup {"rename"}
          /\ UNCHANGED rlog
       \/ /\ rpc' = "error"
          /\ dest_lines' = tempfile
          /\ dest_exists' = TRUE
          /\ rlog' = rlog \cup {"rename"}
          /\ UNCHANGED <<tempfile, rret, rcalls>>
    /\ UNCHANGED <<commands, malloc_failed, stdin_tty, stdin_lines, fpos,
                   descs, execs, inserted, parsed>>
    /\ UNCHANGED <<dest_orig, stdin_read, reported>>
    /\ UNCHANGED <<menuVars, utilVars>>

\* if (fflush(ftemp) || fsync(fdtemp) || fclose(ftemp)) { verror(...); }
\* else if (rename(tempname, path)) { verror(...); } else { return 0; }
RefreshFlushRename ==
    /\ rpc = "flush"
    /\ \/ /\ dest_lines' = tempfile
          /\ dest_exists' = TRUE
          /\ tempfile' = NoFile
          /\ rpc' = "done"
          /\ rret' = 0
          /\ rcalls' = rcalls \cup {"rename"}
          /\ UNCHANGED rlog
       \/ /\ rpc' = "error"
          /\ \E diag \in {"flush", "rename"} : rlog' = rlog \cup {diag}
          /\ UNCHANGED <<dest_lines, dest_exists, tempfile, rret, rcalls>>
    /\ UNCHANGED <<commands, malloc_failed, stdin_tty, stdin_lines, fpos,
                   descs, execs, inserted, parsed>>
    /\ UNCHANGED <<dest_orig, stdin_read, reported>>
    /\ UNCHANGED <<menuVars, utilVars>>

\* error: ... verror("del: %s", tempname);
\*        if (unlink(tempname)) { verror(...); }  return 1;
RefreshError ==
    /\ rpc = "error"
    /\ \/ tempfile' = NoFile /\ rlog' = rlog \cup {"tempfile"}
       \/ UNCHANGED tempfile /\ rlog' = rlog \cup {"tempfile", "unlink"}
    /\ rcalls' = rcalls \cup {"unlink"}
    /\ rpc' = "done"
    /\ rret' = 1
    /\ UNCHANGED <<commands, malloc_failed, stdin_tty, stdin_lines,
                   dest_exists, dest_lines, fpos, descs, execs, inserted,
                   parsed>>
    /\ UNCHANGED <<dest_orig, stdin_read, reported>>
    /\ UNCHANGED <<menuVars, utilVars>>

NextRefresh ==
    \/ RefreshSkipStdin
    \/ RefreshStdinLine
    \/ RefreshStdinEnd
    \/ RefreshOpenFile
    \/ RefreshFileLine
    \/ RefreshFileEnd
    \/ RefreshParseEntry
    \/ RefreshScanEnd
    \/ RefreshMkstemp
    \/ RefreshSortWrite
    \/ RefreshFlushRename
    \/ RefreshError

----------------------------------------------------------------------------
(* parse_desktop_entry(): the text of a desktop entry file.                *)
(* A line is given by what the sscanf() formats of the parser make of it:  *)
(* the section header, a "Key = value" line, an "Exec = tokens" line, or   *)
(* anything else.                                                          *)

\* Number of lines of a desktop entry file.
MaxEntryLines == 3

\* The texts "true" and "env".
TrueText == <<116, 114, 117, 101>>

EnvText == <<101, 110, 118>>

\* "true", "True", "false", "truest".
BooleanValues ==
    {<<116, 114, 117, 101>>, <<84, 114, 117, 101>>,
     <<102, 97, 108, 115, 101>>, <<116, 114, 117, 101, 115, 116>>}

\* Token lists of the Exec lines used as inputs: "Ab", "/d/b", "env",
\* "env X=1", "env -i", "env X=1 -i b c", "/d/env =c", "env /d/b X=1", and
\* the empty list of "Exec=" with nothing after it.
ExecTokenLists ==
    {<<>>,
     << <<65, 98>> >>,
     << <<47, 100, 47, 98>> >>,
     << <<101, 110, 118>> >>,
     << <<101, 110, 118>>, <<88, 61, 49>> >>,
     << <<101, 110, 118>>, <<45, 105>> >>,
     << <<101, 110, 118>>, <<88, 61, 49>>, <<45, 105>>, <<98>>, <<99>> >>,
     << <<47, 100, 47, 101, 110, 118>>, <<61, 99>> >>,
     << <<101, 110, 118>>, <<47, 100, 47, 98>>, <<88, 61, 49>> >>}

EntryLines ==
    {[kind |-> "header"], [kind |-> "other"]}
    \cup {[kind |-> "key", key |-> "Terminal", val |-> v] :
            v \in BooleanValues \ {<<84, 114, 117, 101>>}}
    \cup {[kind |-> "key", key |-> "NoDisplay", val |-> v] :
            v \in {<<84, 114, 117, 101>>}}
    \cup {[kind |-> "exec", toks |-> t] : t \in ExecTokenLists}

\* basename(command): the text after the last '/'.
basename(str) ==
    LET slashes == {i \in 1..Len(str) : str[i] = 47}
    IN  IF slashes = {} THEN str
        ELSE LET last == CHOOSE i \in slashes : \A j \in slashes : j <= i
             IN  SubSeq(str, last + 1, Len(str))

\* sscanf(line, "NoDisplay = %5s", ...) > 0 || sscanf(line, "Terminal = %5s",
\* ...) > 0
ScansBoolean(line) ==
    /\ line.kind = "key"
    /\ line.key \in {"NoDisplay", "Terminal"}
    /\ line.val # <<>>

\* boolean_value_string: %5s stores at most five characters of the value.
boolean_value_string(line) ==
    SubSeq(line.val, 1, IF Len(line.val) < 5 THEN Len(line.val) ELSE 5)

\* sscanf(line, "Exec = %4095s %n", command, &offset) > 0
ScansExec(line) == line.kind = "exec" /\ line.toks # <<>>

\* Whether the env loop takes a token for the command:
\* (!strchr(command + 1, '=') && command[0] != '-')
IsCommandWord(tok) ==
    /\ ~\E i \in 2..Len(tok) : tok[i] = 61
    /\ tok[1] # 45

\* The loop over the tokens after env: the first command word ends it; a
\* rejected token leaves command empty (command[0] = '\0'), and
\* command_basename then points into the overwritten buffer.
RECURSIVE EnvLoop(_, _, _, _)
EnvLoop(toks, i, cmd, base) ==
    IF i > Len(toks) THEN [command |-> cmd, command_basename |-> base]
    ELSE IF IsCommandWord(toks[i])
    THEN [command |-> toks[i], command_basename |-> basename(toks[i])]
    ELSE EnvLoop(toks, i + 1, <<>>, <<>>)

\* What an Exec line leaves in command and command_basename.
ExecScan(toks) ==
    IF basename(toks[1]) = EnvText
    THEN EnvLoop(toks, 2, toks[1], basename(toks[1]))
    ELSE [command |-> toks[1], command_basename |-> basename(toks[1])]

ParseIdle ==
    /\ ppc = "idle"
    /\ entry_lines = <<>>
    /\ entry_pos = 0
    /\ inside_desktop_entry = FALSE
    /\ entry_command = <<>>
    /\ entry_basename = <<>>

\* The file was opened; char command[4096] = ""; inside_desktop_entry = 0.
ParseStart ==
    /\ ppc = "lines"
    /\ entry_lines \in SeqsUpTo(EntryLines, MaxEntryLines)
    /\ entry_pos = 0
    /\ inside_desktop_entry = FALSE
    /\ entry_command = <<>>
    /\ entry_basename = <<>>

\* The line getline() returns next.
NextLine == entry_lines[entry_pos + 1]

\* if (!inside_desktop_entry)
\*     inside_desktop_entry = !strcasecmp("[Desktop Entry]\n", line);
ParseSectionLine ==
    /\ ppc = "lines"
    /\ entry_pos < Len(entry_lines)
    /\ ~inside_desktop_entry
    /\ inside_desktop_entry' = (NextLine.kind = "header")
    /\ entry_pos' = entry_pos + 1
    /\ UNCHANGED <<ppc, entry_lines, entry_command, entry_basename>>
    /\ UNCHANGED <<menuVars, refreshVars, pathVars>>

\* Variant: a true value does not end the loop.
ParseBooleanLine_NoBreak ==
    /\ ppc = "lines"
    /\ entry_pos < Len(entry_lines)
    /\ inside_desktop_entry
    /\ ScansBoolean(NextLine)
    /\ entry_pos' = entry_pos + 1
    /\ UNCHANGED <<ppc, entry_lines, inside_desktop_entry, entry_command,
                   entry_basename>>
    /\ UNCHANGED <<menuVars, refreshVars, pathVars>>

\* A NoDisplay or Terminal line inside the section:
\* if (!strcasecmp("true", boolean_value_string)) { command[0] = '\0'; break; }
ParseBooleanLine ==
    /\ ppc = "lines"
    /\ entry_pos < Len(entry_lines)
    /\ inside_desktop_entry
    /\ ScansBoolean(NextLine)
    /\ entry_pos' = entry_pos + 1
    /\ IF strcasecmp(TrueText, boolean_value_string(NextLine)) = 0
       THEN /\ entry_command' = <<>>
            /\ ppc' = "done"
            /\ UNCHANGED entry_basename
       ELSE UNCHANGED <<ppc, entry_command, entry_basename>>
    /\ UNCHANGED <<entry_lines, inside_desktop_entry>>
    /\ UNCHANGED <<menuVars, refreshVars, pathVars>>

\* Variant: an Exec line is used only while there is no candidate yet.
ParseExecLine_KeepsFirst ==
    /\ ppc = "lines"
    /\ entry_pos < Len(entry_lines)
    /\ inside_desktop_entry
    /\ ~ScansBoolean(NextLine)
    /\ ScansExec(NextLine)
    /\ entry_pos' = entry_pos + 1
    /\ IF entry_command = <<>>
       THEN /\ entry_command' = ExecScan(NextLine.toks).command
            /\ entry_basename' = ExecScan(NextLine.toks).command_basename
       ELSE UNCHANGED <<entry_command, entry_basename>>
    /\ UNCHANGED <<ppc, entry_lines, inside_desktop_entry>>
    /\ UNCHANGED <<menuVars, refreshVars, pathVars>>

\* An Exec line inside the section.
ParseExecLine ==
    /\ ppc = "lines"
    /\ entry_pos < Len(entry_lines)
    /\ inside_desktop_entry
    /\ ~ScansBoolean(NextLine)
    /\ ScansExec(NextLine)
    /\ entry_pos' = entry_pos + 1
    /\ entry_command' = ExecScan(NextLine.toks).command
    /\ entry_basename' = ExecScan(NextLine.toks).command_basename
    /\ UNCHANGED <<ppc, entry_lines, inside_desktop_entry>>
    /\ UNCHANGED <<menuVars, refreshVars, pathVars>>

\* A line inside the section that none of the formats matches.
ParseOtherLine ==
    /\ ppc = "lines"
    /\ entry_pos < Len(entry_lines)
    /\ inside_desktop_entry
    /\ ~ScansBoolean(NextLine)
    /\ ~ScansExec(NextLine)
    /\ entry_pos' = entry_pos + 1
    /\ UNCHANGED <<ppc, entry_lines, inside_desktop_entry, entry_command,
                   entry_basename>>
    /\ UNCHANGED <<menuVars, refreshVars, pathVars>>

\* getline() returns -1.
ParseEndOfFile ==
    /\ ppc = "lines"
    /\ entry_pos = Len(entry_lines)
    /\ ppc' = "done"
    /\ UNCHANGED <<entry_lines, entry_pos, inside_desktop_entry,
                   entry_command, entry_basename>>
    /\ UNCHANGED <<menuVars, refreshVars, pathVars>>

NextParse ==
    \/ ParseSectionLine
    \/ ParseBooleanLine
    \/ ParseExecLine
    \/ ParseOtherLine
    \/ ParseEndOfFile

\* The candidate the file hands to the rest of parse_desktop_entry():
\* if (command[0] == '\0' || ...) return 0;  otherwise command_basename.
Candidate == IF entry_command = <<>> THEN NoName ELSE entry_basename

----------------------------------------------------------------------------
(* command_path(): the search along PATH, one character at a time.         *)

\* Length of the PATH variable.
MaxPathLen == 5

\* sizeof(path), static char path[PATH_MAX], scaled down.
PathMax == 4

\* Characters of PATH values: ':', 'd', '/'.
PathChars == {58, 100, 47}

\* getenv("PATH") == NULL (no string holds a NUL character).
NoEnv == <<0>>

\* Commands to resolve: "c" and "/c".
PathCommands == {<<99>>, <<47, 99>>}

\* Files that may be executable regular files: "./c", "d/c", "/c".
PathFiles == {<<46, 47, 99>>, <<100, 47, 99>>, <<47, 99>>}

\* The kernel's reading of a path name: repeated slashes count as one.
RECURSIVE Collapse(_)
Collapse(p) ==
    IF Len(p) < 2 THEN p
    ELSE IF p[1] = 47 /\ p[2] = 47 THEN Collapse(Tail(p))
    ELSE <<p[1]>> \o Collapse(Tail(p))

\* can_execute(p): access(p, X_OK) and stat() succeed and S_ISREG holds.
can_execute(p) == Collapse(p) \in cp_files

\* strchr(command, '/') != NULL
HasSlash(str) == \E i \in 1..Len(str) : str[i] = 47

\* command_path() has not returned.
NoResult == <<-1>>

PathIdle ==
    /\ cp_pc = "idle"
    /\ cp_command = <<>>
    /\ cp_env = NoEnv
    /\ cp_files = {}
    /\ src = 0
    /\ src_mark = 0
    /\ path_buf = <<>>
    /\ cp_result = NoResult
    /\ cp_errno = "unset"
    /\ cp_tested = <<>>
    /\ cp_getenv = FALSE
    /\ cp_overflow = FALSE

\* command_path(command) has just been called.
PathStart ==
    /\ cp_pc = "start"
    /\ cp_command \in PathCommands
    /\ cp_env \in SeqsUpTo(PathChars, MaxPathLen) \cup {NoEnv}
    /\ cp_files \in SUBSET PathFiles
    /\ src = 0
    /\ src_mark = 0
    /\ path_buf = <<>>
    /\ cp_result = NoResult
    /\ cp_errno = "unset"
    /\ cp_tested = <<>>
    /\ cp_getenv = FALSE
    /\ cp_overflow = FALSE

\* The value command_path() returns for "not found".
NullPath == <<0>>

\* if (strchr(command, '/')) return (can_execute(command) ? command : NULL);
CpSlashCommand ==
    /\ cp_pc = "start"
    /\ HasSlash(cp_command)
    /\ cp_tested' = Append(cp_tested, cp_command)
    /\ IF can_execute(cp_command)
       THEN cp_result' = cp_command /\ UNCHANGED cp_errno
       ELSE cp_result' = NullPath /\ cp_errno' = "access"
    /\ cp_pc' = "done"
    /\ UNCHANGED <<cp_command, cp_env, cp_files, src, src_mark, path_buf,
                   cp_getenv, cp_overflow>>
    /\ UNCHANGED <<menuVars, refreshVars, parseVars>>

\* else if (!(env_value = getenv("PATH"))) return NULL;
CpNoPath ==
    /\ cp_pc = "start"
    /\ ~HasSlash(cp_command)
    /\ cp_env = NoEnv
    /\ cp_getenv' = TRUE
    /\ cp_result' = NullPath
    /\ cp_pc' = "done"
    /\ UNCHANGED <<cp_command, cp_env, cp_files, src, src_mark, path_buf,
                   cp_errno, cp_tested, cp_overflow>>
    /\ UNCHANGED <<menuVars, refreshVars, parseVars>>

\* dest = path; src = env_value; src_mark = src;
CpBegin ==
    /\ cp_pc = "start"
    /\ ~HasSlash(cp_command)
    /\ cp_env # NoEnv
    /\ cp_getenv' = TRUE
    /\ src' = 1
    /\ src_mark' = 1
    /\ path_buf' = <<>>
    /\ cp_pc' = "loop"
    /\ UNCHANGED <<cp_command, cp_env, cp_files, cp_result, cp_errno,
                   cp_tested, cp_overflow>>
    /\ UNCHANGED <<menuVars, refreshVars, parseVars>>

\* if (*src != ':' && *src != '\0') { *dest++ = *src++; continue; }
\* The store is made whatever the value of dest: past the end of path[] it
\* lands outside the array.
CpCopyChar ==
    /\ cp_pc = "loop"
    /\ CharAt(cp_env, src) \notin {58, 0}
    /\ path_buf' = Append(path_buf, CharAt(cp_env, src))
    /\ cp_overflow' = (cp_overflow \/ Len(path_buf) >= PathMax)
    /\ src' = src + 1
    /\ UNCHANGED <<cp_pc, cp_command, cp_env, cp_files, src_mark, cp_result,
                   cp_errno, cp_tested, cp_getenv>>
    /\ UNCHANGED <<menuVars, refreshVars, parseVars>>

\* Variant: a zero-length component stands for the root directory.
Prefix_EmptyIsRoot ==
    IF src = src_mark THEN <<47>>
    ELSE IF path_buf[Len(path_buf)] # 47 THEN Append(path_buf, 47)
    ELSE path_buf

\* The directory prefix at the end of a component: "./" for a zero-length
\* one, otherwise the component with a '/' appended unless it ends in one.
Prefix ==
    IF src = src_mark THEN <<46, 47>>
    ELSE IF path_buf[Len(path_buf)] # 47 THEN Append(path_buf, 47)
    ELSE path_buf

\* if (((size_t) (dest - path) + strlen_command) >= sizeof(path))
TooLong(prefix, cmd) == Len(prefix) + Len(cmd) >= PathMax

\* End of a component whose candidate does not fit:
\* errno = ENAMETOOLONG; return NULL;
CpTooLong ==
    /\ cp_pc = "loop"
    /\ CharAt(cp_env, src) \in {58, 0}
    /\ TooLong(Prefix, cp_command)
    /\ path_buf' = Prefix
    /\ cp_overflow' = (cp_overflow \/ (Prefix # path_buf /\ Len(Prefix) > PathMax))
    /\ cp_errno' = "ENAMETOOLONG"
    /\ cp_result' = NullPath
    /\ cp_pc' = "done"
    /\ UNCHANGED <<cp_command, cp_env, cp_files, src, src_mark, cp_tested,
                   cp_getenv>>
    /\ UNCHANGED <<menuVars, refreshVars, parseVars>>

\* End of a component whose candidate fits: strcpy(dest, command); the
\* candidate is returned if can_execute() accepts it; otherwise the search
\* ends at the end of PATH or goes on after the colon.
CpTry ==
    /\ cp_pc = "loop"
    /\ CharAt(cp_env, src) \in {58, 0}
    /\ ~TooLong(Prefix, cp_command)
    /\ LET candidate == Prefix \o cp_command
       IN  /\ cp_tested' = Append(cp_tested, candidate)
           /\ IF can_execute(candidate)
              THEN /\ cp_result' = candidate
                   /\ cp_pc' = "done"
                   /\ path_buf' = candidate
                   /\ UNCHANGED <<src, src_mark, cp_errno>>
              ELSE IF CharAt(cp_env, src) = 0
              THEN /\ cp_result' = NullPath
                   /\ cp_pc' = "done"
                   /\ path_buf' = candidate
                   /\ cp_errno' = "access"
                   /\ UNCHANGED <<src, src_mark>>
              ELSE /\ path_buf' = <<>>
                   /\ src' = src + 1
                   /\ src_mark' = src + 1
                   /\ cp_errno' = "access"
                   /\ UNCHANGED <<cp_pc, cp_result>>
    /\ UNCHANGED <<cp_command, cp_env, cp_files, cp_getenv, cp_overflow>>
    /\ UNCHANGED <<menuVars, refreshVars, parseVars>>

\* A store past the end of path[] is undefined behaviour: the process may go
\* on as if nothing happened or be killed.
CpCrash ==
    /\ cp_pc = "loop"
    /\ cp_overflow
    /\ cp_pc' = "crashed"
    /\ UNCHANGED <<cp_command, cp_env, cp_files, src, src_mark, path_buf,
                   cp_result, cp_errno, cp_tested, cp_getenv, cp_overflow>>
    /\ UNCHANGED <<menuVars, refreshVars, parseVars>>

NextPath ==
    \/ CpSlashCommand
    \/ CpNoPath
    \/ CpBegin
    \/ CpCopyChar
    \/ CpTooLong
    \/ CpTry
    \/ CpCrash

----------------------------------------------------------------------------
(* Initial state of launch mode: menu() has just been entered. *)

InitMenu ==
    /\ pc = "pipe"
    /\ failure = 1
    /\ menu_kill_signal = 0
    /\ menu_pid = 0
    /\ command = NoText
    /\ eof_flag = FALSE
    /\ wait_status = NoStatus
    /\ retval = 0
    /\ errlog = {}
    /\ menu_st = "none"
    /\ menu_status = NoStatus
    /\ setup_failed = "none"
    /\ written = <<>>
    /\ tail = NoText
    /\ hup_pending = FALSE
    /\ nread = 0
    /\ malformed = NoText
    /\ launched = <<>>
    /\ kills = <<>>
    /\ reaped = {}
    /\ spurious = 0

\* Launch mode is not running: refresh mode was chosen.
MenuIdle ==
    /\ pc = "idle"
    /\ failure = 1
    /\ menu_kill_signal = 0
    /\ menu_pid = 0
    /\ command = NoText
    /\ eof_flag = FALSE
    /\ wait_status = NoStatus
    /\ retval = 0
    /\ errlog = {}
    /\ menu_st = "none"
    /\ menu_status = NoStatus
    /\ setup_failed = "none"
    /\ written = <<>>
    /\ tail = NoText
    /\ hup_pending = FALSE
    /\ nread = 0
    /\ malformed = NoText
    /\ launched = <<>>
    /\ kills = <<>>
    /\ reaped = {}
    /\ spurious = 0

parentVars == <<pc, failure, menu_kill_signal, menu_pid, command, eof_flag,
                wait_status, retval, errlog, nread, malformed, kills, reaped,
                spurious>>
selectorVars == <<menu_st, menu_status, setup_failed, written, tail,
                  hup_pending>>

----------------------------------------------------------------------------
(* The parent: menu(). *)

\* if (pipe(pipefds)) { perror(...); return 1; }
ParentPipe ==
    /\ pc = "pipe"
    /\ \E ok \in BOOLEAN :
         IF ok
         THEN /\ pc' = "fork_menu"
              /\ UNCHANGED <<retval, errlog>>
         ELSE /\ pc' = "done"
              /\ retval' = 1
              /\ errlog' = errlog \cup {"pipe"}
    /\ UNCHANGED <<failure, menu_kill_signal, menu_pid, command, eof_flag,
                   wait_status, nread, kills, reaped, spurious, launched>>
    /\ UNCHANGED selectorVars
    /\ UNCHANGED malformed
    /\ UNCHANGED <<refreshVars, utilVars>>

\* switch ((menu_pid = fork())) { case -1: verror(...); return 1; ... }
ParentForkMenu ==
    /\ pc = "fork_menu"
    /\ \E ok \in BOOLEAN :
         IF ok
         THEN /\ menu_pid' = Len(launched) + 1
              /\ menu_st' = "close_r"
              /\ pc' = "close_w"
              /\ UNCHANGED <<retval, errlog>>
         ELSE /\ menu_pid' = -1
              /\ pc' = "done"
              /\ retval' = 1
              /\ errlog' = errlog \cup {"fork_menu"}
              /\ UNCHANGED menu_st
    /\ UNCHANGED <<failure, menu_kill_signal, command, eof_flag, wait_status,
                   nread, kills, reaped, spurious, launched>>
    /\ UNCHANGED <<menu_status, setup_failed, written, tail, hup_pending>>
    /\ UNCHANGED malformed
    /\ UNCHANGED <<refreshVars, utilVars>>

\* Variant: a failed close() returns at once, like the failures before the
\* fork do.
ParentCloseWriteEnd_EarlyReturn ==
    /\ pc = "close_w"
    /\ \E ok \in BOOLEAN :
         IF ok
         THEN /\ pc' = "fdopen"
              /\ UNCHANGED <<errlog, retval>>
         ELSE /\ pc' = "done"
              /\ retval' = 1
              /\ errlog' = errlog \cup {"close_w"}
    /\ UNCHANGED <<failure, menu_kill_signal, menu_pid, command, eof_flag,
                   wait_status, nread, kills, reaped, spurious, launched>>
    /\ UNCHANGED selectorVars
    /\ UNCHANGED malformed
    /\ UNCHANGED <<refreshVars, utilVars>>

\* Variant: a failed close() is reported and the parent goes on to read.
ParentCloseWriteEnd_ReadsAnyway ==
    /\ pc = "close_w"
    /\ \E ok \in BOOLEAN :
         /\ pc' = "fdopen"
         /\ errlog' = IF ok THEN errlog ELSE errlog \cup {"close_w"}
    /\ UNCHANGED <<failure, menu_kill_signal, menu_pid, command, eof_flag,
                   wait_status, retval, nread, kills, reaped, spurious,
                   launched>>
    /\ UNCHANGED selectorVars
    /\ UNCHANGED malformed
    /\ UNCHANGED <<refreshVars, utilVars>>

\* if (close(pipefds[1])) { perror(...); } else if ...
ParentCloseWriteEnd ==
    /\ pc = "close_w"
    /\ \E ok \in BOOLEAN :
         IF ok
         THEN /\ pc' = "fdopen"
              /\ UNCHANGED errlog
         ELSE /\ pc' = "kill_check"
              /\ errlog' = errlog \cup {"close_w"}
    /\ UNCHANGED <<failure, menu_kill_signal, menu_pid, command, eof_flag,
                   wait_status, retval, nread, kills, reaped, spurious,
                   launched>>
    /\ UNCHANGED selectorVars
    /\ UNCHANGED malformed
    /\ UNCHANGED <<refreshVars, utilVars>>

\* else if (!(menu_output = fdopen(pipefds[0], "r"))) { verror(...); }
\* else { failure = 0; while (...) ...
ParentFdopen ==
    /\ pc = "fdopen"
    /\ \E ok \in BOOLEAN :
         IF ok
         THEN /\ pc' = "loop"
              /\ failure' = 0
              /\ UNCHANGED errlog
         ELSE /\ pc' = "kill_check"
              /\ errlog' = errlog \cup {"fdopen"}
              /\ UNCHANGED failure
    /\ UNCHANGED <<menu_kill_signal, menu_pid, command, eof_flag, wait_status,
                   retval, nread, kills, reaped, spurious, launched>>
    /\ UNCHANGED selectorVars
    /\ UNCHANGED malformed
    /\ UNCHANGED <<refreshVars, utilVars>>

\* getline() returns a newline-terminated line: the newline is cut off and the
\* code goes on to fork().
ParentReadLine ==
    /\ pc = "loop"
    /\ failure = 0
    /\ Unread # <<>>
    /\ command' = Head(Unread)
    /\ nread' = nread + 1
    /\ pc' = "fork_cmd"
    /\ UNCHANGED <<failure, menu_kill_signal, menu_pid, eof_flag, wait_status,
                   retval, errlog, kills, reaped, spurious, launched>>
    /\ UNCHANGED selectorVars
    /\ UNCHANGED malformed
    /\ UNCHANGED <<refreshVars, utilVars>>

\* Variant: the line is not tested for its trailing newline and goes on to
\* fork() like any other.
ParentReadPartial_NoCheck ==
    /\ pc = "loop"
    /\ failure = 0
    /\ Unread = <<>>
    /\ WriteEndClosed
    /\ tail # NoText
    /\ ~eof_flag
    /\ command' = tail
    /\ tail' = NoText
    /\ eof_flag' = TRUE
    /\ malformed' = tail
    /\ pc' = "fork_cmd"
    /\ UNCHANGED <<failure, menu_kill_signal, menu_pid, wait_status, retval,
                   errlog, nread, kills, reaped, spurious, launched>>
    /\ UNCHANGED <<menu_st, menu_status, setup_failed, written, hup_pending>>
    /\ UNCHANGED <<refreshVars, utilVars>>

\* getline() reaches end-of-file after text without a newline: it returns
\* that text and the stream's end-of-file indicator is set.
\* fmterr("del: missing newline after '%s'", command);
ParentReadPartial ==
    /\ pc = "loop"
    /\ failure = 0
    /\ Unread = <<>>
    /\ WriteEndClosed
    /\ tail # NoText
    /\ ~eof_flag
    /\ command' = tail
    /\ tail' = NoText
    /\ eof_flag' = TRUE
    /\ malformed' = tail
    /\ errlog' = errlog \cup {"missing_newline"}
    /\ pc' = "loop"
    /\ UNCHANGED <<failure, menu_kill_signal, menu_pid, wait_status, retval,
                   nread, kills, reaped, spurious, launched>>
    /\ UNCHANGED <<menu_st, menu_status, setup_failed, written, hup_pending>>
    /\ UNCHANGED <<refreshVars, utilVars>>

\* getline() returns -1 at end-of-file.
ParentReadEOF ==
    /\ pc = "loop"
    /\ failure = 0
    /\ Unread = <<>>
    /\ WriteEndClosed
    /\ tail = NoText
    /\ eof_flag' = TRUE
    /\ pc' = "after_loop"
    /\ UNCHANGED <<failure, menu_kill_signal, menu_pid, command, wait_status,
                   retval, errlog, nread, kills, reaped, spurious, launched>>
    /\ UNCHANGED selectorVars
    /\ UNCHANGED malformed
    /\ UNCHANGED <<refreshVars, utilVars>>

\* getline() returns -1 because read(2) failed: the end-of-file indicator
\* keeps the value it had.
ParentReadError ==
    /\ pc = "loop"
    /\ failure = 0
    /\ pc' = "after_loop"
    /\ UNCHANGED <<failure, menu_kill_signal, menu_pid, command, eof_flag,
                   wait_status, retval, errlog, nread, kills, reaped, spurious,
                   launched>>
    /\ UNCHANGED selectorVars
    /\ UNCHANGED malformed
    /\ UNCHANGED <<refreshVars, utilVars>>

\* Variant: a failed fork() is tried again for the same line.
ParentForkCommand_Retry ==
    /\ pc = "fork_cmd"
    /\ \E ok \in BOOLEAN :
         IF ok
         THEN /\ launched' = Append(launched,
                    [cmd |-> command, pid |-> menu_pid + Len(launched) + 1,
                     st |-> "start", val |-> 0])
              /\ pc' = "loop"
              /\ UNCHANGED <<failure, errlog>>
         ELSE /\ launched' = Append(launched,
                    [cmd |-> command, pid |-> -1, st |-> "nofork", val |-> 0])
              /\ errlog' = errlog \cup {"fork_cmd"}
              /\ pc' = "fork_cmd"
              /\ UNCHANGED failure
    /\ UNCHANGED <<menu_kill_signal, menu_pid, command, eof_flag, wait_status,
                   retval, nread, kills, reaped, spurious>>
    /\ UNCHANGED selectorVars
    /\ UNCHANGED malformed
    /\ UNCHANGED <<refreshVars, utilVars>>

\* switch (fork()) { case -1: perror(...); failure = 1; break; case 0: ... }
\* A failed fork ends the loop through its !failure condition.
ParentForkCommand ==
    /\ pc = "fork_cmd"
    /\ \E ok \in BOOLEAN :
         IF ok
         THEN /\ launched' = Append(launched,
                    [cmd |-> command, pid |-> menu_pid + Len(launched) + 1,
                     st |-> "start", val |-> 0])
              /\ pc' = "loop"
              /\ UNCHANGED <<failure, errlog>>
         ELSE /\ launched' = Append(launched,
                    [cmd |-> command, pid |-> -1, st |-> "nofork", val |-> 0])
              /\ failure' = 1
              /\ errlog' = errlog \cup {"fork_cmd"}
              /\ pc' = "after_loop"
    /\ UNCHANGED <<menu_kill_signal, menu_pid, command, eof_flag, wait_status,
                   retval, nread, kills, reaped, spurious>>
    /\ UNCHANGED selectorVars
    /\ UNCHANGED malformed
    /\ UNCHANGED <<refreshVars, utilVars>>

\* if (!failure && (failure = !feof(menu_output))) { verror(...); }
\* if (fclose(menu_output)) { verror(...); }   free(command);
ParentAfterLoop ==
    /\ pc = "after_loop"
    /\ failure' = ReadEndFailure(failure, eof_flag)
    /\ \E closed \in BOOLEAN :
         errlog' = errlog
                   \cup (IF failure = 0 /\ failure' # 0 THEN {"read"} ELSE {})
                   \cup (IF closed THEN {} ELSE {"fclose"})
    /\ pc' = "kill_check"
    /\ UNCHANGED <<menu_kill_signal, menu_pid, command, eof_flag, wait_status,
                   retval, nread, kills, reaped, spurious, launched>>
    /\ UNCHANGED selectorVars
    /\ UNCHANGED malformed
    /\ UNCHANGED <<refreshVars, utilVars>>

\* Variant: the signal is sent but not remembered in menu_kill_signal.
ParentKillCheck_NoRecord ==
    /\ pc = "kill_check"
    /\ IF ShouldKill(failure)
       THEN /\ kills' = Append(kills, <<menu_pid, SIGHUP>>)
            /\ hup_pending' = MenuAlive
       ELSE UNCHANGED <<kills, hup_pending>>
    /\ pc' = "wait"
    /\ UNCHANGED <<failure, menu_pid, command, eof_flag, wait_status, retval,
                   errlog, nread, reaped, spurious, launched, menu_kill_signal>>
    /\ UNCHANGED <<menu_st, menu_status, setup_failed, written, tail>>
    /\ UNCHANGED malformed
    /\ UNCHANGED <<refreshVars, utilVars>>

\* if (failure == 1) { kill(menu_pid, (menu_kill_signal = SIGHUP)); }
ParentKillCheck ==
    /\ pc = "kill_check"
    /\ IF ShouldKill(failure)
       THEN /\ menu_kill_signal' = SIGHUP
            /\ kills' = Append(kills, <<menu_pid, SIGHUP>>)
            /\ hup_pending' = MenuAlive
       ELSE UNCHANGED <<menu_kill_signal, kills, hup_pending>>
    /\ pc' = "wait"
    /\ UNCHANGED <<failure, menu_pid, command, eof_flag, wait_status, retval,
                   errlog, nread, reaped, spurious, launched>>
    /\ UNCHANGED <<menu_st, menu_status, setup_failed, written, tail>>
    /\ UNCHANGED malformed
    /\ UNCHANGED <<refreshVars, utilVars>>

\* waitpid(menu_pid, &wait_status, 0) == -1
ParentWaitError ==
    /\ pc = "wait"
    /\ wait_status' = <<"error", 0>>
    /\ failure' = WaitErrorFailure(failure)
    /\ errlog' = errlog \cup {"wait"}
    /\ retval' = failure'
    /\ pc' = "done"
    /\ UNCHANGED <<menu_kill_signal, menu_pid, command, eof_flag, nread, kills,
                   reaped, spurious, launched>>
    /\ UNCHANGED selectorVars
    /\ UNCHANGED malformed
    /\ UNCHANGED <<refreshVars, utilVars>>

\* waitpid() reports a terminated process: WIFEXITED or WIFSIGNALED.
ParentWait ==
    /\ pc = "wait"
    /\ \E p \in WaitTargets \cap Terminated :
         /\ p \notin reaped
         /\ reaped' = reaped \cup {p}
         /\ wait_status' = StatusOf(p)
         /\ IF wait_status'[1] = "exited"
            THEN /\ failure' = ExitedFailure(failure, wait_status'[2])
                 /\ errlog' = errlog \cup
                      (IF failure = 0 /\ failure' # 0
                       THEN {"exit_status"} ELSE {})
            ELSE /\ failure' = SignaledFailure(failure, wait_status'[2],
                                               menu_kill_signal)
                 /\ errlog' = errlog \cup
                      (IF SignalReported(wait_status'[2], menu_kill_signal)
                       THEN {"signal"} ELSE {})
    /\ retval' = failure'
    /\ pc' = "done"
    /\ UNCHANGED <<menu_kill_signal, menu_pid, command, eof_flag, nread, kills,
                   spurious, launched>>
    /\ UNCHANGED selectorVars
    /\ UNCHANGED malformed
    /\ UNCHANGED <<refreshVars, utilVars>>

\* Variant: the kill is inside the while (1) loop and is sent again on every
\* turn of it.
ParentWaitOther_KillsAgain ==
    /\ pc = "wait"
    /\ MenuAlive
    /\ spurious < MaxSpurious
    /\ spurious' = spurious + 1
    /\ wait_status' = <<"stopped", 0>>
    /\ kills' = IF ShouldKill(failure)
                THEN Append(kills, <<menu_pid, SIGHUP>>)
                ELSE kills
    /\ UNCHANGED <<pc, failure, menu_kill_signal, menu_pid, command, eof_flag,
                   retval, errlog, nread, reaped, launched>>
    /\ UNCHANGED selectorVars
    /\ UNCHANGED malformed
    /\ UNCHANGED <<refreshVars, utilVars>>

\* waitpid() reports a state change that is neither an exit nor a signal
\* death: the while (1) loop calls it again.
ParentWaitOther ==
    /\ pc = "wait"
    /\ MenuAlive
    /\ spurious < MaxSpurious
    /\ spurious' = spurious + 1
    /\ wait_status' = <<"stopped", 0>>
    /\ UNCHANGED <<pc, failure, menu_kill_signal, menu_pid, command, eof_flag,
                   retval, errlog, nread, kills, reaped, launched>>
    /\ UNCHANGED selectorVars
    /\ UNCHANGED malformed
    /\ UNCHANGED <<refreshVars, utilVars>>

----------------------------------------------------------------------------
(* The selector process: the child of the first fork(). *)

NextSetupStep(st) ==
    CASE st = "close_r"  -> "dup2"
      [] st = "dup2"     -> "close_in"
      [] st = "close_in" -> "open"
      [] st = "open"     -> "exec"
      [] st = "exec"     -> "running"

\* One step of: close(pipefds[0]); dup2(pipefds[1], STDOUT_FILENO);
\* close(STDIN_FILENO); open(menu_list_path, O_RDONLY); execvp(argv[0], argv).
\* close(STDIN_FILENO) failing with EBADF counts as done.
MenuSetupOk ==
    /\ menu_st \in MenuSetupSteps
    /\ menu_st' = NextSetupStep(menu_st)
    /\ UNCHANGED <<menu_status, setup_failed, written, tail, hup_pending>>
    /\ UNCHANGED parentVars
    /\ UNCHANGED launched
    /\ UNCHANGED <<refreshVars, utilVars>>

\* Variant: the child leaves with _exit(0) after a failed setup step.
MenuSetupFails_ExitZero ==
    /\ menu_st \in MenuSetupSteps
    /\ setup_failed' = menu_st
    /\ menu_st' = "dead"
    /\ menu_status' = <<"exited", 0>>
    /\ hup_pending' = FALSE
    /\ UNCHANGED <<written, tail>>
    /\ UNCHANGED parentVars
    /\ UNCHANGED launched
    /\ UNCHANGED <<refreshVars, utilVars>>

\* A setup step fails: the diagnostic goes to stderr and the child falls
\* through to _exit(1).
MenuSetupFails ==
    /\ menu_st \in MenuSetupSteps
    /\ setup_failed' = menu_st
    /\ menu_st' = "dead"
    /\ menu_status' = <<"exited", 1>>
    /\ hup_pending' = FALSE
    /\ UNCHANGED <<written, tail>>
    /\ UNCHANGED parentVars
    /\ UNCHANGED launched
    /\ UNCHANGED <<refreshVars, utilVars>>

\* The selector prints a selection followed by a newline. Text written
\* before without a newline becomes the start of this line.
MenuWriteLine ==
    /\ menu_st = "running"
    /\ Len(written) < MaxLines
    /\ \E c \in Commands :
         written' = Append(written, IF tail = NoText THEN c ELSE tail)
    /\ tail' = NoText
    /\ UNCHANGED <<menu_st, menu_status, setup_failed, hup_pending>>
    /\ UNCHANGED parentVars
    /\ UNCHANGED launched
    /\ UNCHANGED <<refreshVars, utilVars>>

\* The selector prints text without a newline.
MenuWritePartial ==
    /\ menu_st = "running"
    /\ tail = NoText
    /\ \E c \in Commands : tail' = c
    /\ UNCHANGED <<menu_st, menu_status, setup_failed, written, hup_pending>>
    /\ UNCHANGED parentVars
    /\ UNCHANGED launched
    /\ UNCHANGED <<refreshVars, utilVars>>

\* The selector program exits.
MenuExit ==
    /\ menu_st = "running"
    /\ \E s \in ExitStatuses : menu_status' = <<"exited", s>>
    /\ menu_st' = "dead"
    /\ hup_pending' = FALSE
    /\ UNCHANGED <<setup_failed, written, tail>>
    /\ UNCHANGED parentVars
    /\ UNCHANGED launched
    /\ UNCHANGED <<refreshVars, utilVars>>

\* The selector is killed by a signal that did not come from the parent.
MenuKilled ==
    /\ MenuAlive
    /\ \E n \in EnvSignals : menu_status' = <<"signaled", n>>
    /\ menu_st' = "dead"
    /\ hup_pending' = FALSE
    /\ UNCHANGED <<setup_failed, written, tail>>
    /\ UNCHANGED parentVars
    /\ UNCHANGED launched
    /\ UNCHANGED <<refreshVars, utilVars>>

\* The SIGHUP sent by the parent is delivered and terminates the selector.
MenuHangup ==
    /\ MenuAlive
    /\ hup_pending
    /\ menu_status' = <<"signaled", SIGHUP>>
    /\ menu_st' = "dead"
    /\ hup_pending' = FALSE
    /\ UNCHANGED <<setup_failed, written, tail>>
    /\ UNCHANGED parentVars
    /\ UNCHANGED launched
    /\ UNCHANGED <<refreshVars, utilVars>>

\* The selector ignores or handles the SIGHUP sent by the parent.
MenuIgnoresHangup ==
    /\ menu_st = "running"
    /\ hup_pending
    /\ hup_pending' = FALSE
    /\ UNCHANGED <<menu_st, menu_status, setup_failed, written, tail>>
    /\ UNCHANGED parentVars
    /\ UNCHANGED launched
    /\ UNCHANGED <<refreshVars, utilVars>>

----------------------------------------------------------------------------
(* Launched commands: the children of the fork() in the read loop. *)

\* case 0: if (fclose(menu_output)) {...} else if (execlp(command, command,
\* NULL)) {...}  _exit(1);   -- either the program runs or the child exits 1.
CommandStart(k) ==
    /\ launched[k].st = "start"
    /\ \E ok \in BOOLEAN :
         launched' = [launched EXCEPT ![k] =
             IF ok THEN [@ EXCEPT !.st = "running"]
                   ELSE [@ EXCEPT !.st = "exited", !.val = 1]]
    /\ UNCHANGED parentVars
    /\ UNCHANGED selectorVars
    /\ UNCHANGED <<refreshVars, utilVars>>

\* The launched program exits or is killed.
CommandEnds(k) ==
    /\ launched[k].st = "running"
    /\ \E end \in {<<"exited", 0>>, <<"exited", 3>>, <<"signaled", 15>>} :
         launched' = [launched EXCEPT ![k] =
                          [@ EXCEPT !.st = end[1], !.val = end[2]]]
    /\ UNCHANGED parentVars
    /\ UNCHANGED selectorVars
    /\ UNCHANGED <<refreshVars, utilVars>>

CommandStep == \E k \in 1..Len(launched) : CommandStart(k) \/ CommandEnds(k)

----------------------------------------------------------------------------

ParentStep ==
    \/ ParentPipe
    \/ ParentForkMenu
    \/ ParentCloseWriteEnd
    \/ ParentFdopen
    \/ ParentReadLine
    \/ ParentReadPartial
    \/ ParentReadEOF
    \/ ParentReadError
    \/ ParentForkCommand
    \/ ParentAfterLoop
    \/ ParentKillCheck
    \/ ParentWaitError
    \/ ParentWait
    \/ ParentWaitOther

\* The steps of the parent that happen once they can: every step but the
\* failures of read(2) and waitpid(), which are up to the environment.
ParentProgress ==
    \/ ParentPipe
    \/ ParentForkMenu
    \/ ParentCloseWriteEnd
    \/ ParentFdopen
    \/ ParentReadLine
    \/ ParentReadPartial
    \/ ParentReadEOF
    \/ ParentForkCommand
    \/ ParentAfterLoop
    \/ ParentKillCheck
    \/ ParentWait
    \/ ParentWaitOther

SelectorStep ==
    \/ MenuSetupOk
    \/ MenuSetupFails
    \/ MenuWriteLine
    \/ MenuWritePartial
    \/ MenuExit
    \/ MenuKilled
    \/ MenuHangup
    \/ MenuIgnoresHangup

Next == ParentStep \/ SelectorStep \/ CommandStep

\* main(): case LAUNCH_MENU.
Init == InitMenu /\ RefreshIdle /\ ParseIdle /\ PathIdle

Spec == Init /\ [][Next]_vars

\* Launch mode with a parent that is scheduled: a call of the parent that can
\* return does return. Nothing is assumed of the selector or the commands.
SpecLive == Init /\ [][Next]_vars /\ WF_vars(ParentProgress)

\* main(): case REFRESH_COMMAND_LIST.
InitRefresh == RefreshStart /\ MenuIdle /\ ParseIdle /\ PathIdle

SpecRefresh == InitRefresh /\ [][NextRefresh]_vars

\* parse_desktop_entry() on one file.
InitParse == ParseStart /\ MenuIdle /\ RefreshIdle /\ PathIdle

SpecParse == InitParse /\ [][NextParse]_vars

\* command_path() on one command.
InitPath == PathStart /\ MenuIdle /\ RefreshIdle /\ ParseIdle

SpecPath == InitPath /\ [][NextPath]_vars

----------------------------------------------------------------------------
(* Properties of launch mode. *)

\* The selector process was created by menu().
Spawned == menu_pid > 0

\* Diagnostics of the errors that leave failure at 1.
FatalTags == {"close_w", "fdopen", "fork_cmd", "read"}

\* A fatal error occurred in the parent during setup or reading.
Fatal == errlog \cap FatalTags # {}

\* menu() has returned after having created the selector.
Returned == pc = "done" /\ Spawned

\* The commands for which fork() was attempted, in order.
LaunchedCommands == [k \in 1..Len(launched) |-> launched[k].cmd]

\* C1 as stated: after the selector was spawned the result is 1 after a
\* fatal error, else the selector's non-zero exit status, else 128 + N for a
\* death by a signal N other than the one menu() sent, and otherwise 0.
C1_PriorityAsStated ==
    Returned =>
        retval = (IF Fatal THEN 1
                  ELSE IF wait_status[1] = "exited" /\ wait_status[2] # 0
                       THEN wait_status[2]
                  ELSE IF wait_status[1] = "signaled"
                          /\ wait_status[2] # menu_kill_signal
                       THEN 128 + wait_status[2]
                  ELSE 0)

\* C1 amended: as above, with the failure of waitpid() itself ranked right
\* after the fatal errors: without a fatal error it makes the result 2.
C1_Priority ==
    Returned =>
        retval = (IF Fatal THEN 1
                  ELSE IF wait_status[1] = "error" THEN 2
                  ELSE IF wait_status[1] = "exited" /\ wait_status[2] # 0
                       THEN wait_status[2]
                  ELSE IF wait_status[1] = "signaled"
                          /\ wait_status[2] # menu_kill_signal
                       THEN 128 + wait_status[2]
                  ELSE 0)

\* C1 witness: menu() returned 2 because only waitpid() failed.
C1_Witness ==
    Returned /\ ~Fatal /\ wait_status[1] = "error" /\ retval = 2

\* C2: the fork() attempts are, in order, for a prefix of the complete lines
\* the selector wrote; each line is launched at most once and only after
\* getline() returned it.
C2_LaunchOrder ==
    /\ nread <= Len(written)
    /\ Len(launched) <= nread
    /\ \A k \in 1..Len(launched) : launched[k].cmd = written[k]
    /\ IF pc = "fork_cmd"
       THEN Len(launched) = nread - 1 /\ command = written[nread]
       ELSE Len(launched) = nread

\* C2 witness: two different lines were launched in the order written.
C2_Witness ==
    /\ LaunchedCommands = <<"xterm", "gimp">>
    /\ written = <<"xterm", "gimp">>

\* C3: once getline() has returned a final line without a newline, that line
\* is reported and not launched, every complete line before it was launched,
\* no fatal error is recorded, no signal is sent, and a selector exit status
\* of 0 gives the result 0.
C3_MalformedLine ==
    malformed # NoText =>
        /\ "missing_newline" \in errlog
        /\ pc # "fork_cmd"
        /\ LaunchedCommands = written
        /\ \A k \in 1..Len(launched) : launched[k].pid # -1
        /\ ~Fatal
        /\ kills = <<>>
        /\ pc \in {"loop", "after_loop", "kill_check", "wait"} => failure = 0
        /\ (pc = "done" /\ wait_status = <<"exited", 0>>) => retval = 0

\* C3 witness: two lines launched, then a malformed line, selector exit 0.
C3_Witness ==
    /\ pc = "done"
    /\ malformed # NoText
    /\ Len(launched) = 2
    /\ wait_status = <<"exited", 0>>
    /\ retval = 0

\* C4: after a failed fork() for a selection nothing more is read or
\* launched, SIGHUP is sent to the selector and remembered, menu() returns 1
\* and the selector's death by SIGHUP is not reported.
C4_ForkFailure ==
    "fork_cmd" \in errlog =>
        /\ pc \in {"after_loop", "kill_check", "wait", "done"}
        /\ launched[Len(launched)].pid = -1
        /\ \A k \in 1..(Len(launched) - 1) : launched[k].pid # -1
        /\ nread = Len(launched)
        /\ failure = 1
        /\ pc \in {"wait", "done"} =>
              /\ kills = << <<menu_pid, SIGHUP>> >>
              /\ menu_kill_signal = SIGHUP
        /\ pc = "done" =>
              /\ retval = 1
              /\ wait_status = <<"signaled", SIGHUP>> => "signal" \notin errlog

\* C4 witness: the second fork() failed and the selector died of the SIGHUP.
C4_Witness ==
    /\ pc = "done"
    /\ Len(launched) = 2
    /\ launched[2].pid = -1
    /\ wait_status = <<"signaled", SIGHUP>>
    /\ retval = 1

\* C5 as stated: a signal is sent to the selector only after a failed fork()
\* of a selected command.
C5_KillOnlyAfterForkFailure == kills # <<>> => "fork_cmd" \in errlog

\* C5 amended: a signal is sent to the selector only after a fatal error in
\* the parent (close of the write end, fdopen, fork of a selection, read
\* error); without one no signal is sent, and the only signal is one SIGHUP
\* to menu_pid.
C5_KillOnlyAfterFatal ==
    /\ kills # <<>> => Fatal /\ kills = << <<menu_pid, SIGHUP>> >>
    /\ (pc \in {"wait", "done"} /\ Spawned /\ ~Fatal) => kills = <<>>

\* C5 witness: SIGHUP was sent after close() of the write end failed.
C5_Witness ==
    /\ kills = << <<menu_pid, SIGHUP>> >>
    /\ "close_w" \in errlog
    /\ "fork_cmd" \notin errlog

\* C6: once the selector exists, menu() returns only after waitpid()
\* collected the selector or failed.
C6_WaitBeforeReturn ==
    Returned => (menu_pid \in reaped \/ wait_status[1] = "error")

\* C6 witness: returned through the failed close() with the selector reaped.
C6_Witness ==
    /\ Returned
    /\ "close_w" \in errlog
    /\ menu_pid \in reaped

\* C7: the parent collects no process but the selector, the status it acts on
\* is the selector's, and no launched command is ever reaped.
C7_FireAndForget ==
    /\ reaped \subseteq {menu_pid}
    /\ \A k \in 1..Len(launched) : launched[k].pid \notin reaped
    /\ wait_status[1] \in {"exited", "signaled"} => wait_status = menu_status

\* C7 witness: menu() returned 0 although one command failed to exec and
\* another is still running.
C7_Witness ==
    /\ pc = "done"
    /\ retval = 0
    /\ Len(launched) = 2
    /\ launched[1].st = "exited" /\ launched[1].val = 1
    /\ launched[2].st = "running"

\* C8: a failed setup step in the selector child ends it with exit status 1
\* before the selector ran; with nothing read and no error in the parent
\* menu() returns 1.
C8_ChildSetupFailure ==
    setup_failed # "none" =>
        /\ menu_st = "dead"
        /\ menu_status = <<"exited", 1>>
        /\ written = <<>> /\ tail = NoText /\ nread = 0
        /\ (pc = "done" /\ ~Fatal /\ "wait" \notin errlog) => retval = 1

\* C8 witness: the list file could not be opened and menu() returned 1.
C8_Witness ==
    /\ pc = "done"
    /\ setup_failed = "open"
    /\ ~Fatal
    /\ kills = <<>>
    /\ retval = 1

----------------------------------------------------------------------------
(* Properties of refresh mode. *)

\* refresh_command_list() returned 0: the list was written and renamed.
RefreshSucceeded == rpc = "done" /\ rret = 0

\* C9: after a successful refresh the list file holds every name of the
\* registry, no two of its lines are equal ignoring case, and its lines are
\* sorted ignoring case.
C9_PersistedUnique ==
    RefreshSucceeded =>
        /\ \A k \in 1..Len(inserted) :
              \E i \in 1..Len(dest_lines) :
                  strcasecmp(dest_lines[i], inserted[k].name) = 0
        /\ \A i, j \in 1..Len(dest_lines) :
              i < j => strcasecmp(dest_lines[i], dest_lines[j]) # 0
        /\ \A i, j \in 1..Len(dest_lines) :
              i < j => strcasecmp(dest_lines[i], dest_lines[j]) <= 0

\* C10 as stated: at every point of a refresh no two entries of the registry
\* are equal under case-insensitive comparison.
C10_RegistryUniqueAsStated ==
    \A i, j \in 1..Len(commands) :
        i < j => strcasecmp(commands[i], commands[j]) # 0

\* C10 amended: the registry holds exactly the names added so far, and two
\* entries equal under case-insensitive comparison both come from the stdin
\* list or the pre-existing destination file, never from a descriptor file.
C10_DuplicatesOnlyAmongLoaded ==
    /\ Len(commands) = Len(inserted)
    /\ \A k \in 1..Len(inserted) :
          Cardinality({i \in 1..Len(commands) : commands[i] = inserted[k].name})
          = Cardinality({i \in 1..Len(inserted) :
                            inserted[i].name = inserted[k].name})
    /\ \A i, j \in 1..Len(inserted) :
          (i # j /\ strcasecmp(inserted[i].name, inserted[j].name) = 0)
              => /\ inserted[i].origin \in {"stdin", "file"}
                 /\ inserted[j].origin \in {"stdin", "file"}

\* C10 witness: stdin and the old list gave two entries equal ignoring case,
\* and a descriptor naming the same command was visited and added nothing.
C10_Witness ==
    /\ rpc = "mkstemp"
    /\ Len(inserted) = 2
    /\ inserted[1].origin = "stdin" /\ inserted[2].origin = "file"
    /\ strcasecmp(inserted[1].name, inserted[2].name) = 0
    /\ Len(parsed) = 1
    /\ parsed[1] # NoName
    /\ strcasecmp(parsed[1], inserted[1].name) = 0

----------------------------------------------------------------------------
(* Properties of the persistence step. *)

\* The temporary file was created during this refresh.
TempCreated == "mkstemp" \in rcalls

\* The destination file is what it was before the refresh.
DestUnchanged ==
    /\ dest_exists = dest_orig.exists
    /\ dest_lines = dest_orig.lines

\* C11: the destination changes only through the final rename: unless the
\* refresh has returned 0 the destination is exactly what it was before
\* (so a failure or a crash at any point before the rename leaves it
\* unchanged), and after the rename it holds the complete output of the write
\* loop. When a refresh that created the temporary file returns after a
\* failure, it returns 1 and has called unlink() on the temporary file; the
\* file only remains if that unlink() failed, which is reported.
C11_AtomicPersistence ==
    /\ ~RefreshSucceeded => DestUnchanged
    /\ RefreshSucceeded =>
         /\ "rename" \in rcalls
         /\ dest_exists
         /\ dest_lines = WriteOut(commands, 1)
         /\ tempfile = NoFile
    /\ (rpc = "done" /\ ~RefreshSucceeded /\ TempCreated) =>
         /\ rret = 1
         /\ "unlink" \in rcalls
         /\ tempfile # NoFile => "unlink" \in rlog
    /\ (rpc = "done" /\ ~TempCreated) => tempfile = NoFile

\* The rename failed after a complete temporary file was written: the
\* destination still holds its old, different content and the temporary
\* file is gone.
C11_Witness ==
    /\ rpc = "done"
    /\ rret = 1
    /\ "rename" \in rlog
    /\ TempCreated
    /\ tempfile = NoFile
    /\ dest_orig.exists
    /\ dest_lines = dest_orig.lines
    /\ dest_lines # WriteOut(commands, 1)

\* C12: persisting the same registry contents twice yields byte-identical
\* files: whatever order qsort() leaves the registry in, the write loop
\* prints the same lines, including when the registry holds names that
\* differ only in case or exact duplicates.
C12_PersistDeterministic ==
    rpc = "sort_write" =>
      \A s1, s2 \in SortedOrders(1..Len(commands)) :
        WriteOut(s1, 1) = WriteOut(s2, 1)

\* Diagnostics of the failures that end a refresh before the count check.
LoadingDiagnostics == {"stdin", "load", "walk", "alloc"}

\* C13: with an empty registry the refresh never enters the persistence step:
\* no temporary file is created and the destination stays as it was. When
\* loading and scanning ended without failure and the registry is empty, the
\* refresh reports "no commands found" and returns 1.
C13_EmptyRegistry ==
    /\ Len(commands) = 0 =>
         /\ rpc \notin {"mkstemp", "sort_write", "flush", "error"}
         /\ rcalls = {}
         /\ tempfile = NoFile
         /\ DestUnchanged
         /\ rpc = "done" => rret = 1
    /\ (rpc = "done" /\ Len(commands) = 0 /\ rlog \cap LoadingDiagnostics = {})
         => "nocommands" \in rlog
    /\ "nocommands" \in rlog =>
         /\ rpc = "done"
         /\ rret = 1
         /\ Len(commands) = 0
         /\ descs = <<>>

\* "no commands found" was reported although the destination file held a
\* name before the refresh: the name no longer resolves, and the file is
\* left as it was.
C13_Witness ==
    /\ "nocommands" \in rlog
    /\ rret = 1
    /\ dest_orig.exists
    /\ Len(dest_orig.lines) > 0
    /\ dest_lines = dest_orig.lines
    /\ Len(parsed) > 0
    /\ tempfile = NoFile

----------------------------------------------------------------------------
(* Properties of parse_desktop_entry(). *)

\* Line i of the file is a Terminal or NoDisplay key whose value is "true",
\* compared without regard to case.
IsTrueKey(i) ==
    /\ entry_lines[i].kind = "key"
    /\ entry_lines[i].key \in {"Terminal", "NoDisplay"}
    /\ strcasecmp(entry_lines[i].val, TrueText) = 0

\* Line i comes after a "[Desktop Entry]" header line.
InsideSection(i) == \E h \in 1..(i - 1) : entry_lines[h].kind = "header"

\* C14 as stated: a file with a Terminal or NoDisplay key of value "true"
\* anywhere in it yields no candidate command.
C14_HiddenAnywhere ==
    (ppc = "done" /\ \E i \in 1..Len(entry_lines) : IsTrueKey(i))
      => Candidate = NoName

\* C14: a file with a Terminal or NoDisplay key of value "true" on a line
\* after the section header yields no candidate command, wherever that line
\* stands relative to the Exec lines.
C14_HiddenInsideSection ==
    (ppc = "done"
     /\ \E i \in 1..Len(entry_lines) : IsTrueKey(i) /\ InsideSection(i))
      => Candidate = NoName

\* The header, then an Exec line naming a command, then the key: the
\* command the Exec line had set is discarded.
C14_Witness ==
    /\ ppc = "done"
    /\ Len(entry_lines) = 3
    /\ entry_lines[1].kind = "header"
    /\ ScansExec(entry_lines[2])
    /\ ExecScan(entry_lines[2].toks).command # <<>>
    /\ IsTrueKey(3)
    /\ Candidate = NoName

\* The line read last is an Exec line inside the section whose first token
\* is env (by base name).
EnvLineScanned ==
    /\ entry_pos > 0
    /\ InsideSection(entry_pos)
    /\ ScansExec(entry_lines[entry_pos])
    /\ basename(entry_lines[entry_pos].toks[1]) = EnvText

\* C15: after an Exec line that starts with env the candidate is the first
\* later token that has no '=' after its first character and does not start
\* with '-'; when there is no such token, env being the only token included,
\* there is no candidate.
C15_EnvCandidate ==
    EnvLineScanned =>
      LET toks == entry_lines[entry_pos].toks
          words == {i \in 2..Len(toks) :
                      /\ ~\E k \in 2..Len(toks[i]) : toks[i][k] = 61
                      /\ toks[i][1] # 45}
      IN  IF words = {} THEN Candidate = NoName
          ELSE Candidate =
                 basename(toks[CHOOSE i \in words : \A j \in words : i <= j])

----------------------------------------------------------------------------
(* Properties of command_path(). *)

\* The colon-separated components of a PATH value, left to right: a value
\* with k colons has k + 1 components, empty ones included.
RECURSIVE Components(_)
Components(str) ==
    LET colons == {i \in 1..Len(str) : str[i] = 58}
    IN  IF colons = {} THEN <<str>>
        ELSE LET first == CHOOSE i \in colons : \A j \in colons : i <= j
             IN  <<SubSeq(str, 1, first - 1)>>
                 \o Components(SubSeq(str, first + 1, Len(str)))

\* The path a component stands for: the current directory for an empty one.
JoinedPath(comp, cmd) ==
    IF comp = <<>> THEN <<46, 47>> \o cmd
    ELSE IF comp[Len(comp)] = 47 THEN comp \o cmd
    ELSE comp \o <<47>> \o cmd

\* The candidates of the search, one per component of PATH.
Candidates ==
    LET comps == Components(cp_env)
    IN  [i \in 1..Len(comps) |-> JoinedPath(comps[i], cp_command)]

\* C16: a command with a '/' is tested as it stands and PATH is not read; a
\* command without one fails when PATH is unset; otherwise the paths tested
\* are the candidates of the components of PATH strictly left to right, an
\* empty component standing for the current directory, and the result is the
\* first candidate that is an executable regular file. The search returns
\* "not found" only after the last component, or when a candidate does not
\* fit in the buffer.
C16_PathSearch ==
    /\ (cp_pc # "start" /\ HasSlash(cp_command)) =>
         /\ ~cp_getenv
         /\ cp_tested = <<cp_command>>
         /\ cp_result = IF can_execute(cp_command) THEN cp_command
                        ELSE NullPath
    /\ (cp_pc # "start" /\ ~HasSlash(cp_command) /\ cp_env = NoEnv) =>
         /\ cp_tested = <<>>
         /\ cp_result = NullPath
    /\ (cp_pc # "start" /\ ~HasSlash(cp_command) /\ cp_env # NoEnv) =>
         /\ Len(cp_tested) <= Len(Candidates)
         /\ \A i \in 1..Len(cp_tested) : cp_tested[i] = Candidates[i]
         /\ \A i \in 1..(Len(cp_tested) - 1) : ~can_execute(cp_tested[i])
         /\ (cp_pc = "done" /\ cp_result # NullPath) =>
              /\ Len(cp_tested) > 0
              /\ cp_result = cp_tested[Len(cp_tested)]
              /\ can_execute(cp_result)
         /\ (cp_pc = "done" /\ cp_result = NullPath) =>
              /\ \A i \in 1..Len(cp_tested) : ~can_execute(cp_tested[i])
              /\ \/ Len(cp_tested) = Len(Candidates)
                 \/ cp_errno = "ENAMETOOLONG"

\* PATH is ":d": the current directory is tried first and holds no
\* executable c, the second component does.
C16_Witness ==
    /\ cp_pc = "done"
    /\ cp_env = <<58, 100>>
    /\ cp_command = <<99>>
    /\ cp_tested = <<<<46, 47, 99>>, <<100, 47, 99>>>>
    /\ cp_result = <<100, 47, 99>>

----------------------------------------------------------------------------
(* Properties of the loading phase of a refresh. *)

\* The refresh is past the loading phase without having failed in it.
LoadingPassed ==
    \/ rpc \in {"scan", "mkstemp", "sort_write", "flush", "error"}
    \/ rpc = "done" /\ rlog \cap {"stdin", "load"} = {}

\* C17: a destination file that does not exist never makes the load fail and
\* contributes no name; the scan is only reached after stdin (when it is not
\* a terminal) and the destination file (when it exists) were read to their
\* end; a failed load, allocation failures while loading included, makes the
\* refresh return 1 with no file visited by the directory walk, no temporary
\* file created and the destination untouched.
C17_LoadFailures ==
    /\ ~dest_orig.exists =>
         /\ "load" \notin rlog
         /\ \A i \in 1..Len(inserted) : inserted[i].origin # "file"
    /\ LoadingPassed =>
         /\ ~stdin_tty => stdin_lines = <<>>
         /\ dest_orig.exists => fpos = Len(dest_orig.lines)
    /\ rlog \cap {"stdin", "load"} # {} =>
         /\ rpc = "done"
         /\ rret = 1
         /\ parsed = <<>>
         /\ rcalls = {}
         /\ tempfile = NoFile
         /\ DestUnchanged
    /\ (malloc_failed /\ parsed = <<>>) => rlog \cap {"stdin", "load"} # {}
    /\ (~LoadingPassed /\ rpc = "done") => rlog \cap {"stdin", "load"} # {}

\* The destination file could not be opened or read after a name had been
\* loaded from stdin: the refresh returned 1 and the waiting descriptor file
\* was never visited.
C17_Witness ==
    /\ rpc = "done"
    /\ rret = 1
    /\ "load" \in rlog
    /\ ~malloc_failed
    /\ Len(inserted) > 0
    /\ descs # <<>>
    /\ parsed = <<>>
    /\ tempfile = NoFile

\* The lines read so far from a source of the load.
LinesRead(origin) ==
    IF origin = "stdin" THEN stdin_read
    ELSE SubSeq(dest_orig.lines, 1, fpos)

\* The names added to the registry, respectively reported as dropped, that
\* came from a source.
NamesFrom(log, origin) ==
    LET from == SelectSeq(log, LAMBDA e : e.origin = origin)
    IN  [i \in 1..Len(from) |-> from[i].name]

\* The load from a source ended on a failed allocation: the line read last
\* resolved and was not added.
AllocFailedIn(origin) ==
    /\ malloc_failed
    /\ parsed = <<>>
    /\ LoadDiagnostic(origin) \in rlog

\* What holds of the registry and of the names dropped, in every state.
ResolvedOrDropped ==
    /\ \A i \in 1..Len(inserted) : command_path(inserted[i].name)
    /\ \A i \in 1..Len(reported) : ~command_path(reported[i].name)
    /\ \A origin \in {"stdin", "file"} :
         LET read == LinesRead(origin)
             added == IF AllocFailedIn(origin)
                      THEN SubSeq(read, 1, Len(read) - 1) ELSE read
         IN  /\ NamesFrom(reported, origin) =
                  SelectSeq(read, LAMBDA n : ~command_path(n))
             /\ NamesFrom(inserted, origin) =
                  SelectSeq(added, LAMBDA n : command_path(n))

\* What holds of the step that drops a name: the load goes on with the next
\* line, nothing is returned and no diagnostic is printed.
DropIsNotFatal ==
    reported' # reported =>
      /\ rpc' \in {"load_stdin", "read_file"}
      /\ rret' = rret
      /\ rlog' = rlog
      /\ malloc_failed' = malloc_failed

OneNameAtMost ==
    (rpc = "scan" /\ parsed' # parsed) =>
      LET candidate == Head(descs)
          lowered == LowerStr(candidate)
          known == \E i \in 1..Len(commands) :
                     strcasecmp(commands[i], candidate) = 0
          new == SubSeq(inserted', Len(inserted) + 1, Len(inserted'))
      IN  /\ Len(new) <= 1
          /\ commands' = commands \o [i \in 1..Len(new) |-> new[i].name]
          /\ (candidate = NoName \/ known) => new = <<>>
          /\ new # <<>> =>
               /\ new[1].origin = "desktop"
               /\ new[1].name = IF command_path(lowered) THEN lowered
                                ELSE candidate
               /\ command_path(new[1].name)
          /\ (new = <<>> /\ candidate # NoName /\ ~known /\ rpc' = "scan") =>
               /\ ~command_path(lowered)
               /\ candidate = lowered \/ ~command_path(candidate)

\* C19: a candidate whose base name is not in the registry (ignoring case)
\* adds at most one name: its lowercased form if that resolves, otherwise its
\* original spelling if that differs from the lowercased form and resolves,
\* otherwise nothing; a candidate already in the registry adds nothing.
C19_OneNameAtMost == [][OneNameAtMost]_vars

\* A candidate with an uppercase letter whose lowercased form does not
\* resolve was added as spelled.
C19_Witness ==
    \E i \in 1..Len(inserted) :
      /\ inserted[i].origin = "desktop"
      /\ inserted[i].name # LowerStr(inserted[i].name)
      /\ ~command_path(LowerStr(inserted[i].name))

\* The first component of PATH, from the left, whose candidate does not fit
\* in path[]: 0 when every candidate fits.
FirstTooLong ==
    LET long == {i \in 1..Len(Candidates) : Len(Candidates[i]) >= PathMax}
    IN  IF long = {} THEN 0
        ELSE CHOOSE i \in long : \A j \in long : i <= j

\* The search reaches a component whose candidate does not fit: PATH is
\* searched and no candidate before that component is executable.
ReachesTooLong ==
    /\ ~HasSlash(cp_command)
    /\ cp_env # NoEnv
    /\ FirstTooLong > 0
    /\ \A i \in 1..(FirstTooLong - 1) : ~can_execute(Candidates[i])

\* C20: when the search reaches a component whose candidate does not fit,
\* the candidates of that component and of the later ones are never tested,
\* and the call ends in one way only: command_path() returns "not found"
\* with errno ENAMETOOLONG.
C20_TooLongEndsSearch ==
    ReachesTooLong =>
      /\ Len(cp_tested) < FirstTooLong
      /\ cp_pc # "crashed"
      /\ cp_pc = "done" =>
           /\ cp_result = NullPath
           /\ cp_errno = "ENAMETOOLONG"
           /\ Len(cp_tested) = FirstTooLong - 1

----------------------------------------------------------------------------
(* Termination of menu(). *)

\* C21: once the selector has terminated, menu() eventually returns: the
\* read loop reaches end-of-file, because no descriptor for the write end
\* of the pipe is left open, and the wait on the selector completes.
C21_MenuReturns == (menu_st = "dead") ~> (pc = "done")

\* menu() returned after reading a selection to end-of-file and collecting
\* the selector, while a command it launched is still running.
C21_Witness ==
    /\ pc = "done"
    /\ menu_st = "dead"
    /\ eof_flag
    /\ menu_pid \in reaped
    /\ \E k \in 1..Len(launched) : launched[k].st = "running"

----------------------------------------------------------------------------
(* The cancellation signal. *)

\* The signals sent so far: at most one, the hang-up signal, to the pid that
\* fork() returned for the selector and to no launched command.
KillsOnlySelector ==
    /\ Len(kills) <= 1
    /\ \A i \in 1..Len(kills) :
         /\ kills[i] = <<menu_pid, SIGHUP>>
         /\ menu_pid > 0
         /\ \A k \in 1..Len(launched) : launched[k].pid # kills[i][1]

\* A step that sends a signal is taken before the selector was collected and
\* does not collect it.
KillPrecedesWait ==
    kills' # kills =>
        /\ kills = <<>>
        /\ menu_pid \notin reaped
        /\ reaped' = reaped
        /\ pc' = "wait"

\* C22: the cancellation signal is sent at most once per run of menu(), only
\* to the selector's pid, never to a launched command, and only before the
\* parent has collected the selector with waitpid().
C22_SingleKill == [](KillsOnlySelector) /\ [][KillPrecedesWait]_vars

\* The signal was sent after commands had been launched, and the selector
\* was collected afterwards.
C22_Witness ==
    /\ Len(kills) = 1
    /\ Len(launched) > 0
    /\ menu_pid \in reaped
    /\ pc = "done"

----------------------------------------------------------------------------
(* Several Exec lines in one entry file. *)

\* The lines read so far on which "Exec = %4095s" stored a first token:
\* Exec lines after the header, whatever section they are in.
ExecLinesRead ==
    {i \in 1..entry_pos :
        /\ InsideSection(i)
        /\ ~ScansBoolean(entry_lines[i])
        /\ ScansExec(entry_lines[i])}

\* A line read so far ended the scan with no candidate.
Disqualified == \E i \in 1..entry_pos : InsideSection(i) /\ IsTrueKey(i)

\* The candidate that an Exec line with these tokens leaves by itself.
ExecCandidate(toks) ==
    IF ExecScan(toks).command = <<>>
    THEN NoName
    ELSE ExecScan(toks).command_basename

\* C23: with no disqualifying NoDisplay or Terminal line, the candidate
\* command is the one of the last Exec line after the header whose first
\* token could be read, whatever the Exec lines before it left; with no such
\* line there is no candidate.
C23_LastExecWins ==
    (ppc \in {"lines", "done"} /\ ~Disqualified) =>
        IF ExecLinesRead = {}
        THEN Candidate = NoName
        ELSE LET last == CHOOSE i \in ExecLinesRead :
                            \A j \in ExecLinesRead : j <= i
             IN  Candidate = ExecCandidate(entry_lines[last].toks)

\* A file with two Exec lines that name different commands was read to the
\* end, and the candidate is the one of the second.
C23_Witness ==
    /\ ppc = "done"
    /\ ~Disqualified
    /\ ExecLinesRead = {2, 3}
    /\ ExecCandidate(entry_lines[2].toks) # NoName
    /\ ExecCandidate(entry_lines[3].toks) # NoName
    /\ ExecCandidate(entry_lines[2].toks) # ExecCandidate(entry_lines[3].toks)
    /\ Candidate = ExecCandidate(entry_lines[3].toks)

----------------------------------------------------------------------------
(* The bounds of path[]. *)

\* C24: every byte command_path() stores into path[] lands at an index below
\* sizeof(path): no store past the end of the buffer ever happens, and the
\* buffer never holds more than sizeof(path) bytes.
C24_StoresInsideBuffer == ~cp_overflow /\ Len(path_buf) <= PathMax

====
